---- MODULE Spec2Model ----
(***************************************************************************)
(* Model of entropy-analyzer: the entropy strategies TextEntropy,          *)
(* NumericalEntropy, SearchEngineEntropy, TimeEntropy, ContextualEntropy   *)
(* and their factory (src/entropy_analyzer/strategies/*.py), BaseWorkflow  *)
(* and the LLM facade (src/entropy_analyzer/system/*.py).                  *)
(*                                                                         *)
(* Four specifications share the variables: Spec (one caller of the        *)
(* strategies), SpecThreads (callers running at once), SpecWorkflow        *)
(* (BaseWorkflow) and SpecLLM (LLM and AsyncLLM).                          *)
(*                                                                         *)
(* Python values are records of one shape,                                 *)
(*   [type, num, txt, fcls, items],                                        *)
(* type being the dynamic type the isinstance tests look at.  A str is a   *)
(* sequence of one-character strings.  A float is a fixed-point integer in *)
(* units of 1/Unit, with fcls telling a finite value from nan, inf, -inf.  *)
(*                                                                         *)
(* The library calls are modelled by what they compute, in fixed point:    *)
(* logarithms and cube roots are tabulated to 1/Unit, quotients round      *)
(* down, and the 1e-10 the code adds before scipy's entropy is kept only   *)
(* where it decides a sign (TimeEntropy); its effect on a magnitude is     *)
(* below 1/Unit.  The four strategies that talk to nobody are one step     *)
(* each; ContextualEntropy is followed statement by statement, the judge   *)
(* choosing what its client construction and its request do.               *)
(***************************************************************************)
EXTENDS Integers, Sequences, FiniteSets, TLC

\* ------------------------------------------------------------------ bounds
MaxTextLen == 3
MaxContentLen == 2
MaxListLen == 3

\* fixed-point unit of every float of the model: 1.0 is Unit
Unit == 10^4

\* ------------------------------------------------------- program constants
\* the divisor of the entropy in min(1.0, entropy / 8.0)
EntropyCeiling == 8
\* the divisor of the judge's answer in float(...) / 10.0
JudgeScale == 10
\* ngram_range=(2, 3)
MinNGram == 2
MaxNGram == 3

\* ------------------------------------------------------------------ values
PyVal(t, n, s, c, l) == [type |-> t, num |-> n, txt |-> s, fcls |-> c, items |-> l]
PyNone == PyVal("NoneType", 0, <<>>, "", <<>>)
PyStr(s) == PyVal("str", 0, s, "", <<>>)
PyInt(n) == PyVal("int", n, <<>>, "", <<>>)
PyFloat(n) == PyVal("float", n, <<>>, "finite", <<>>)
PyNonFinite(c) == PyVal("float", 0, <<>>, c, <<>>)
PyList(l) == PyVal("list", 0, <<>>, "", l)

\* the outcome of a call: a returned float or a raised exception
NoOutcome == [kind |-> "none", cls |-> "", val |-> 0, exc |-> "", msg |-> ""]
Return(v) == [kind |-> "return", cls |-> "finite", val |-> v, exc |-> "", msg |-> ""]
ReturnNonFinite(c) == [kind |-> "return", cls |-> c, val |-> 0, exc |-> "", msg |-> ""]
Raise(e, m) == [kind |-> "raise", cls |-> "", val |-> 0, exc |-> e, msg |-> m]

\* sequences of length 0..n over the set S
SeqsUpTo(S, n) == UNION {[1..k -> S] : k \in 0..n}

Min(a, b) == IF a <= b THEN a ELSE b
Max(a, b) == IF a >= b THEN a ELSE b

\* ------------------------------------------------------ scipy.stats.entropy
\* log2(n) and ln(n) for n = 1..16, in units of 1/Unit
Log2U == <<0, 10000, 15850, 20000, 23219, 25850, 28074, 30000, 31699, 33219, 34594, 35850,
           37004, 38074, 39069, 40000>>
LnU == <<0, 6931, 10986, 13863, 16094, 17918, 19459, 20794, 21972, 23026, 23979, 24849,
         25649, 26391, 27081, 27726>>

RECURSIVE SumSeq(_)
SumSeq(s) == IF s = <<>> THEN 0 ELSE Head(s) + SumSeq(Tail(s))

\* entropy(pk, base): pk is normalised to sum 1, then -sum(pk * log(pk)).
\* w is a sequence of non-negative integer weights with a positive sum n;
\* pk[i] = w[i]/n and the term of a zero weight is 0.  logs is LnU or Log2U.
ShannonU(w, logs) ==
    LET n == SumSeq(w)
        term(i) == IF w[i] = 0 THEN 0 ELSE w[i] * (logs[n] - logs[w[i]])
    IN  SumSeq([i \in 1..Len(w) |-> term(i)]) \div n

\* ------------------------------------------------------------- TextEntropy
\* Counter(text): the distinct characters, in order of first occurrence
RECURSIVE Distinct(_)
Distinct(s) ==
    IF s = <<>> THEN <<>>
    ELSE LET r == Distinct(SubSeq(s, 1, Len(s) - 1))
             c == s[Len(s)]
         IN  IF \E i \in 1..Len(r) : r[i] = c THEN r ELSE Append(r, c)

Count(s, c) == Cardinality({i \in 1..Len(s) : s[i] = c})

\* Counter counting positions in place of characters: every position is a
\* key of its own
CounterPositions(s) == [i \in 1..Len(s) |-> 1]

Counter(s) == [i \in 1..Len(Distinct(s)) |-> Count(s, Distinct(s)[i])]

\* the statistical part of TextEntropy, lines 62-64, without the clamp
TextEntropyRaw(s) == ShannonU(Counter(s), Log2U)
TextEntropyScore(s) == Min(Unit, TextEntropyRaw(s) \div EntropyCeiling)

TextEntropy(d) ==
    IF d.type # "str" /\ d.type # "NoneType"
    THEN Raise("ValueError", "Input must be a string or None")
    ELSE IF d.type = "NoneType" \/ d.txt = <<>>
    THEN Return(0)
    ELSE Return(TextEntropyScore(d.txt))

\* -------------------------------------------------------- NumericalEntropy
CeilDiv(a, b) == (a + b - 1) \div b

RECURSIVE Insert(_, _)
Insert(s, x) ==
    IF s = <<>> THEN <<x>>
    ELSE IF x <= Head(s) THEN <<x>> \o s
    ELSE <<Head(s)>> \o Insert(Tail(s), x)

RECURSIVE Sorted(_)
Sorted(s) == IF s = <<>> THEN <<>> ELSE Insert(Sorted(Tail(s)), Head(s))

SeqMin(s) == Sorted(s)[1]
SeqMax(s) == Sorted(s)[Len(s)]

\* float(n), line 67: an int widens to the float of the same value
FloatOf(e) == IF e.type = "int" THEN e.num * Unit ELSE e.num

IsNumber(e) == e.type \in {"int", "float"}
IsFinite(e) == e.type = "int" \/ e.fcls = "finite"

\* n ** (1/3) for n = 1..8, in units of 1/Unit
CbrtU == <<10000, 12599, 14422, 15874, 17100, 18171, 19129, 20000>>

\* 4 * np.percentile(x, 25 * q4), linear interpolation between order statistics
Percentile4(x, q4) ==
    LET a == Sorted(x)
        h == (Len(x) - 1) * q4
        lo == (h \div 4) + 1
        fr == h % 4
    IN  IF fr = 0 THEN 4 * a[lo] ELSE 4 * a[lo] + fr * (a[lo + 1] - a[lo])

\* np.histogram(bins="auto"): the number of equal-width bins.  The width is
\* the smaller of the Freedman-Diaconis and the Sturges width (Sturges alone
\* when the interquartile range is 0), one bin when the width is 0.
AutoBins(x) ==
    LET n == Len(x)
        ptp == SeqMax(x) - SeqMin(x)
        iqr4 == Percentile4(x, 3) - Percentile4(x, 1)
        sturges == CeilDiv(Log2U[n] + Unit, Unit)
        fd == CeilDiv(2 * ptp * CbrtU[n], iqr4 * Unit)
    IN  IF ptp = 0 THEN 1
        ELSE IF iqr4 = 0 THEN sturges
        ELSE Max(sturges, fd)

\* np.histogram: the count of each bin; the last bin is closed on the right
Histogram(x) ==
    LET k == AutoBins(x)
        lo == SeqMin(x)
        ptp == SeqMax(x) - lo
        bin(v) == IF ptp = 0 THEN 1 ELSE Min(k, ((v - lo) * k) \div ptp + 1)
    IN  [b \in 1..k |-> Cardinality({i \in 1..Len(x) : bin(x[i]) = b})]

\* lines 73-75 without the clamp.  The bins have one width, so the densities
\* are proportional to the counts; the 1e-10 added to each is below 1/Unit.
NumericalEntropyRaw(x) == ShannonU(Histogram(x), LnU)
NumericalEntropyScore(x) == Min(Unit, NumericalEntropyRaw(x) \div EntropyCeiling)

\* NumericalEntropy with the "and numbers is not None" of line 58 left out
NumericalEntropyNoneRejected(d) ==
    IF d.type # "list"
    THEN Raise("ValueError", "Input must be a list of numbers or None")
    ELSE IF d.items = <<>>
    THEN Return(0)
    ELSE IF \E i \in 1..Len(d.items) : ~IsNumber(d.items[i])
    THEN Raise("ValueError", "All elements must be numbers")
    ELSE IF \E i \in 1..Len(d.items) : ~IsFinite(d.items[i])
    THEN Raise("ValueError", "Input contains non-finite values")
    ELSE IF Len(d.items) < 2
    THEN Return(0)
    ELSE Return(NumericalEntropyScore([i \in 1..Len(d.items) |-> FloatOf(d.items[i])]))

\* NumericalEntropy with the length test of lines 70-71 moved up to line 61
NumericalEntropyShortFirst(d) ==
    IF d.type # "list" /\ d.type # "NoneType"
    THEN Raise("ValueError", "Input must be a list of numbers or None")
    ELSE IF d.type = "NoneType" \/ Len(d.items) < 2
    THEN Return(0)
    ELSE IF \E i \in 1..Len(d.items) : ~IsNumber(d.items[i])
    THEN Raise("ValueError", "All elements must be numbers")
    ELSE IF \E i \in 1..Len(d.items) : ~IsFinite(d.items[i])
    THEN Raise("ValueError", "Input contains non-finite values")
    ELSE Return(NumericalEntropyScore([i \in 1..Len(d.items) |-> FloatOf(d.items[i])]))

NumericalEntropy(d) ==
    IF d.type # "list" /\ d.type # "NoneType"
    THEN Raise("ValueError", "Input must be a list of numbers or None")
    ELSE IF d.type = "NoneType" \/ d.items = <<>>
    THEN Return(0)
    ELSE IF \E i \in 1..Len(d.items) : ~IsNumber(d.items[i])
    THEN Raise("ValueError", "All elements must be numbers")
    ELSE IF \E i \in 1..Len(d.items) : ~IsFinite(d.items[i])
    THEN Raise("ValueError", "Input contains non-finite values")
    ELSE IF Len(d.items) < 2
    THEN Return(0)
    ELSE Return(NumericalEntropyScore([i \in 1..Len(d.items) |-> FloatOf(d.items[i])]))

\* -------------------------------------------------------------- TimeEntropy
DigitChar == <<"0", "1", "2", "3", "4", "5", "6", "7", "8", "9">>
IsDigit(c) == \E i \in 1..10 : DigitChar[i] = c
DigitVal(c) == (CHOOSE i \in 1..10 : DigitChar[i] = c) - 1

\* the text "YYYY-MM-DD" of a date, as datetime.isoformat writes it
DateStr(y, m, d) ==
    LET dig(n, p) == DigitChar[((n \div p) % 10) + 1]
    IN  << dig(y, 1000), dig(y, 100), dig(y, 10), dig(y, 1), "-",
           dig(m, 10), dig(m, 1), "-", dig(d, 10), dig(d, 1) >>

\* the text "YYYY-MM-DDT00:00:00.fff" of ms milliseconds past midnight
DateTimeStr(y, m, d, ms) ==
    LET dig(n, p) == DigitChar[((n \div p) % 10) + 1]
    IN  DateStr(y, m, d) \o <<"T", "0", "0", ":", "0", "0", ":", "0", "0", ".",
                               dig(ms, 100), dig(ms, 10), dig(ms, 1)>>

IsLeap(y) == (y % 4 = 0 /\ y % 100 # 0) \/ y % 400 = 0
DaysInMonth(y, m) ==
    IF m = 2 THEN (IF IsLeap(y) THEN 29 ELSE 28)
    ELSE IF m \in {4, 6, 9, 11} THEN 30 ELSE 31

\* the fields of a "YYYY-MM-DD" text
IsoYear(s) == DigitVal(s[1]) * 1000 + DigitVal(s[2]) * 100 + DigitVal(s[3]) * 10 + DigitVal(s[4])
IsoMonth(s) == DigitVal(s[6]) * 10 + DigitVal(s[7])
IsoDay(s) == DigitVal(s[9]) * 10 + DigitVal(s[10])

\* the time-of-day fields of a "YYYY-MM-DDTHH:MM:SS.fff" text; a date-only
\* text is midnight
IsoHour(s) == IF Len(s) = 10 THEN 0 ELSE DigitVal(s[12]) * 10 + DigitVal(s[13])
IsoMinute(s) == IF Len(s) = 10 THEN 0 ELSE DigitVal(s[15]) * 10 + DigitVal(s[16])
IsoSecond(s) == IF Len(s) = 10 THEN 0 ELSE DigitVal(s[18]) * 10 + DigitVal(s[19])
IsoMilli(s) ==
    IF Len(s) = 10 THEN 0
    ELSE DigitVal(s[21]) * 100 + DigitVal(s[22]) * 10 + DigitVal(s[23])

IsIsoDate(s) ==
    /\ s[5] = "-" /\ s[8] = "-"
    /\ \A i \in {1, 2, 3, 4, 6, 7, 9, 10} : IsDigit(s[i])
    /\ IsoYear(s) >= 1
    /\ IsoMonth(s) \in 1..12
    /\ IsoDay(s) >= 1 /\ IsoDay(s) <= DaysInMonth(IsoYear(s), IsoMonth(s))

\* datetime.fromisoformat accepts s (of the texts of the model: the date-only
\* form and the form with a time of day to the millisecond; every other text
\* of the model is rejected)
IsIsoFormat(s) ==
    \/ Len(s) = 10 /\ IsIsoDate(s)
    \/ /\ Len(s) = 23
       /\ IsIsoDate(SubSeq(s, 1, 10))
       /\ s[11] = "T" /\ s[14] = ":" /\ s[17] = ":" /\ s[20] = "."
       /\ \A i \in {12, 13, 15, 16, 18, 19, 21, 22, 23} : IsDigit(s[i])
       /\ IsoHour(s) < 24 /\ IsoMinute(s) < 60 /\ IsoSecond(s) < 60

LeapsUpTo(y) == (y \div 4) - (y \div 100) + (y \div 400)
RECURSIVE DaysBeforeMonth(_, _)
DaysBeforeMonth(y, m) == IF m = 1 THEN 0 ELSE DaysBeforeMonth(y, m - 1) + DaysInMonth(y, m - 1)

\* datetime.fromisoformat(ts).timestamp() is a double.  Between 2004 and 2038
\* the doubles are the multiples of 2^-22 s: a timestamp is its whole seconds
\* since 1970-01-01 (UTC is taken as the local zone), Timestamp, and its
\* fraction rounded to the nearest multiple of 2^-22 s, TimestampUlps.
UlpsPerSecond == 2^22

Timestamp(s) ==
    LET y == IsoYear(s)
        days == 365 * (y - 1970) + (LeapsUpTo(y - 1) - LeapsUpTo(1969))
                + DaysBeforeMonth(y, IsoMonth(s)) + (IsoDay(s) - 1)
    IN  days * 86400 + IsoHour(s) * 3600 + IsoMinute(s) * 60 + IsoSecond(s)

\* ms / 1000 in units of 2^-22 s, to the nearest (no tie arises)
TimestampUlps(s) == (IsoMilli(s) * (2^20) + 125) \div 250

\* np.diff(times)
Diff(t) == [i \in 1..(Len(t) - 1) |-> t[i + 1] - t[i]]

\* an interval is <<whole seconds, ulps>> with 0 <= ulps < UlpsPerSecond, its
\* value being seconds + ulps * 2^-22; the subtraction of two timestamps is
\* exact in doubles
Interval(ds, du) == <<ds + (du \div UlpsPerSecond), du % UlpsPerSecond>>

\* np.diff of the timestamps of the texts ts
Intervals(ts) ==
    LET ds == Diff([i \in 1..Len(ts) |-> Timestamp(ts[i])])
        du == Diff([i \in 1..Len(ts) |-> TimestampUlps(ts[i])])
    IN  [i \in 1..(Len(ts) - 1) |-> Interval(ds[i], du[i])]

\* max(intervals) - min(intervals) == 0: the subtraction is exact, so the
\* range is 0 exactly when the intervals are one value
IntervalRangeIsZero(iv) == \A i, j \in 1..Len(iv) : iv[i] = iv[j]

Abs(a) == IF a < 0 THEN -a ELSE a
RECURSIVE GCD(_, _)
GCD(a, b) == IF b = 0 THEN a ELSE GCD(b, a % b)
RECURSIVE SeqGCD(_)
SeqGCD(s) == IF s = <<>> THEN 0 ELSE GCD(Abs(Head(s)), SeqGCD(Tail(s)))

\* the magnitudes of the intervals as integers in one unit: ulps when every
\* interval is below 64 s, else whole seconds
IntervalMagnitudes(iv) ==
    IF \A i \in 1..Len(iv) : Abs(iv[i][1]) < 64
    THEN [i \in 1..Len(iv) |-> Abs(iv[i][1] * UlpsPerSecond + iv[i][2])]
    ELSE [i \in 1..Len(iv) |-> Abs(iv[i][1])]

\* weights for ShannonU, whose tables end at 16: the magnitudes over their
\* common factor and, when these sum to more than 16, in sixteenths of the sum
IntervalWeights(iv) ==
    LET m == IntervalMagnitudes(iv)
        g == SeqGCD(m)
        w == [i \in 1..Len(m) |-> m[i] \div g]
        step == CeilDiv(SumSeq(w), 16)
    IN  IF SumSeq(w) <= 16 THEN w ELSE [i \in 1..Len(w) |-> w[i] \div step]

\* entropy(intervals / interval_range + 1e-10) / 8.0 clamped by min(1.0, .),
\* lines 78-79, interval_range > 0.  An element is iv/range + 1e-10: positive
\* when iv >= 0, negative when iv < 0 (an interval of the model is 0 or at
\* least 1 ms, a range at most some days).  entropy divides the elements by
\* their sum (of the sign of sum(iv), positive when sum(iv) = 0) and sums
\* entr(pk), which is -inf for a negative pk: the result is -inf as soon
\* as one element and the sum differ in sign, and min(1.0, -inf) is -inf.
\* Otherwise pk[i] = |iv[i]| / sum|iv|; the common factor of the intervals
\* cancels in that quotient.
TimeEntropyRaw(iv) ==
    LET total == Interval(SumSeq([i \in 1..Len(iv) |-> iv[i][1]]),
                          SumSeq([i \in 1..Len(iv) |-> iv[i][2]]))
        sumPos == total[1] >= 0
    IN  IF \E i \in 1..Len(iv) : (iv[i][1] >= 0) # sumPos
        THEN ReturnNonFinite("-inf")
        ELSE Return(ShannonU(IntervalWeights(iv), LnU))

TimeEntropyScore(iv) ==
    LET r == TimeEntropyRaw(iv)
    IN  IF r.cls = "finite" THEN Return(Min(Unit, r.val \div EntropyCeiling)) ELSE r

\* the first element of timestamps the loop of lines 65-68 raises on, 0 when
\* it raises on none
FirstBadTimestamp(ts) ==
    LET bad == {i \in 1..Len(ts) : ts[i].type # "str" \/ ~IsIsoFormat(ts[i].txt)}
    IN  IF bad = {} THEN 0 ELSE CHOOSE i \in bad : \A j \in bad : i <= j

\* TimeEntropy with the length test of lines 70-71 made on the argument,
\* ahead of the loop of lines 64-68
TimeEntropyShortFirst(d) ==
    IF d.type # "list" /\ d.type # "NoneType"
    THEN Raise("ValueError", "Input must be a list of timestamp strings or None")
    ELSE IF d.type = "NoneType" \/ Len(d.items) < 2
    THEN Return(0)
    ELSE LET ts == d.items
             first == FirstBadTimestamp(ts)
         IN  IF first # 0
             THEN IF ts[first].type # "str"
                  THEN Raise("ValueError", "All elements must be timestamp strings")
                  ELSE Raise("ValueError", "Invalid isoformat string")
             ELSE LET intervals == Intervals([i \in 1..Len(ts) |-> ts[i].txt])
                  IN  IF IntervalRangeIsZero(intervals)
                      THEN Return(0)
                      ELSE TimeEntropyScore(intervals)

\* the texts in the order of their timestamps
TimeBefore(a, b) ==
    \/ Timestamp(a) < Timestamp(b)
    \/ Timestamp(a) = Timestamp(b) /\ TimestampUlps(a) <= TimestampUlps(b)
RECURSIVE InsertByTime(_, _)
InsertByTime(s, x) ==
    IF s = <<>> THEN <<x>>
    ELSE IF TimeBefore(x, Head(s)) THEN <<x>> \o s
    ELSE <<Head(s)>> \o InsertByTime(Tail(s), x)
RECURSIVE SortedByTime(_)
SortedByTime(s) == IF s = <<>> THEN <<>> ELSE InsertByTime(SortedByTime(Tail(s)), Head(s))

\* TimeEntropy with sorted(times) in place of times at line 73
TimeEntropySorted(d) ==
    IF d.type # "list" /\ d.type # "NoneType"
    THEN Raise("ValueError", "Input must be a list of timestamp strings or None")
    ELSE IF d.type = "NoneType" \/ d.items = <<>>
    THEN Return(0)
    ELSE LET ts == d.items
             first == FirstBadTimestamp(ts)
         IN  IF first # 0
             THEN IF ts[first].type # "str"
                  THEN Raise("ValueError", "All elements must be timestamp strings")
                  ELSE Raise("ValueError", "Invalid isoformat string")
             ELSE IF Len(ts) < 2
             THEN Return(0)
             ELSE LET intervals == Intervals(SortedByTime([i \in 1..Len(ts) |-> ts[i].txt]))
                  IN  IF IntervalRangeIsZero(intervals)
                      THEN Return(0)
                      ELSE TimeEntropyScore(intervals)

TimeEntropy(d) ==
    IF d.type # "list" /\ d.type # "NoneType"
    THEN Raise("ValueError", "Input must be a list of timestamp strings or None")
    ELSE IF d.type = "NoneType" \/ d.items = <<>>
    THEN Return(0)
    ELSE LET ts == d.items
             first == FirstBadTimestamp(ts)
         IN  IF first # 0
             THEN IF ts[first].type # "str"
                  THEN Raise("ValueError", "All elements must be timestamp strings")
                  ELSE Raise("ValueError", "Invalid isoformat string")
             ELSE IF Len(ts) < 2
             THEN Return(0)
             ELSE LET intervals == Intervals([i \in 1..Len(ts) |-> ts[i].txt])
                  IN  IF IntervalRangeIsZero(intervals)
                      THEN Return(0)
                      ELSE TimeEntropyScore(intervals)

\* the library calls TimeEntropy executes: np.diff from two valid timestamps
\* on, entropy when the interval range is not 0
TimeLibCalls(d) ==
    IF /\ d.type = "list" /\ Len(d.items) >= 2
       /\ FirstBadTimestamp(d.items) = 0
    THEN IF IntervalRangeIsZero(Intervals([i \in 1..Len(d.items) |-> d.items[i].txt]))
         THEN {"diff"} ELSE {"diff", "entropy"}
    ELSE {}

\* ------------------------------------------------------ SearchEngineEntropy
\* str.split(): the maximal runs of non-blank characters
RECURSIVE Words(_)
Words(s) ==
    IF s = <<>> THEN <<>>
    ELSE IF Head(s) = " " THEN Words(Tail(s))
    ELSE LET stop == {i \in 1..Len(s) : s[i] = " "}
             end == IF stop = {} THEN Len(s) ELSE (CHOOSE i \in stop : \A j \in stop : i <= j) - 1
         IN  <<SubSeq(s, 1, end)>> \o Words(SubSeq(s, end + 1, Len(s)))

RECURSIVE ConcatAll(_)
ConcatAll(ss) == IF ss = <<>> THEN <<>> ELSE Head(ss) \o ConcatAll(Tail(ss))

\* the n-grams of one blank-padded word, shortest first; a padded word has
\* at least three characters
WordNGrams(word) ==
    LET w == <<" ">> \o word \o <<" ">>
        grams(n) == [o \in 1..(Len(w) - n + 1) |-> SubSeq(w, o, o + n - 1)]
    IN  ConcatAll([k \in 1..(MaxNGram - MinNGram + 1) |-> grams(MinNGram + k - 1)])

\* analyzer="char_wb", ngram_range=(2, 3): the n-grams of a document

CharWbNGrams(doc) == ConcatAll([i \in 1..Len(Words(doc)) |-> WordNGrams(Words(doc)[i])])

\* the features the vectorizer learns from the documents
Vocabulary(docs) ==
    UNION {{CharWbNGrams(docs[i])[k] : k \in 1..Len(CharWbNGrams(docs[i]))} : i \in 1..Len(docs)}

\* floor of the square root
RECURSIVE IsqrtIter(_, _)
IsqrtIter(n, x) ==
    LET y == (x + n \div x) \div 2
    IN  IF y >= x THEN x ELSE IsqrtIter(n, y)
Isqrt(n) == IF n <= 0 THEN 0 ELSE IsqrtIter(n, n)

RECURSIVE SumFn(_, _)
SumFn(f, S) ==
    IF S = {} THEN 0
    ELSE LET x == CHOOSE x \in S : TRUE
         IN  f[x] + SumFn(f, S \ {x})

\* TfidfVectorizer.fit_transform: term counts weighted by the smoothed idf
\* ln((1 + n) / (1 + df)) + 1 (here in units of 10/Unit), each row divided
\* by its Euclidean norm; an all-zero row stays zero.  Weights in 1/Unit.
TfidfMatrix(docs) ==
    LET n == Len(docs)
        vocab == Vocabulary(docs)
        tf(i, g) == Count(CharWbNGrams(docs[i]), g)
        df(g) == Cardinality({i \in 1..n : tf(i, g) > 0})
        idf(g) == (LnU[1 + n] - LnU[1 + df(g)] + Unit) \div 10
        x(i, g) == tf(i, g) * idf(g)
        norm(i) == Isqrt(SumFn([g \in vocab |-> x(i, g) * x(i, g)], vocab))
    IN  [i \in 1..n |-> [g \in vocab |->
            IF norm(i) = 0 THEN 0 ELSE (x(i, g) * Unit) \div norm(i)]]

\* tfidf_matrix.toarray().std(axis=0): per feature, over the documents
StdAxis0(m, vocab) ==
    LET n == Len(m)
        mean(g) == SumSeq([i \in 1..n |-> m[i][g]]) \div n
        meanSq(g) == SumSeq([i \in 1..n |-> m[i][g] * m[i][g]]) \div n
    IN  [g \in vocab |-> Isqrt(meanSq(g) - mean(g) * mean(g))]

\* lines 67-70 without the clamp; fit_transform raises on an empty vocabulary
SearchEntropyRaw(docs) ==
    LET vocab == Vocabulary(docs)
        scores == StdAxis0(TfidfMatrix(docs), vocab)
    IN  IF vocab = {}
        THEN Raise("ValueError", "empty vocabulary; perhaps the documents only contain stop words")
        ELSE Return(IF Cardinality(vocab) > 0
                    THEN SumFn(scores, vocab) \div Cardinality(vocab) ELSE 0)

SearchEntropyScore(docs) ==
    LET r == SearchEntropyRaw(docs)
    IN  IF r.kind = "return" THEN Return(Min(Unit, r.val)) ELSE r

\* SearchEngineEntropy with the all-identical test of lines 64-65 made
\* ahead of the element test of lines 61-62
SearchEngineEntropyIdenticalFirst(d) ==
    IF d.type # "list" /\ d.type # "NoneType"
    THEN Raise("ValueError", "Input must be a list of strings or None")
    ELSE IF d.type = "NoneType" \/ d.items = <<>>
    THEN Return(0)
    ELSE IF Cardinality({d.items[i] : i \in 1..Len(d.items)}) = 1
    THEN Return(0)
    ELSE IF \E i \in 1..Len(d.items) : d.items[i].type # "str"
    THEN Raise("ValueError", "All elements must be strings")
    ELSE SearchEntropyScore([i \in 1..Len(d.items) |-> d.items[i].txt])

\* SearchEngineEntropy with the all-identical test of lines 64-65 left out
SearchEngineEntropyNoIdenticalTest(d) ==
    IF d.type # "list" /\ d.type # "NoneType"
    THEN Raise("ValueError", "Input must be a list of strings or None")
    ELSE IF d.type = "NoneType" \/ d.items = <<>>
    THEN Return(0)
    ELSE IF \E i \in 1..Len(d.items) : d.items[i].type # "str"
    THEN Raise("ValueError", "All elements must be strings")
    ELSE SearchEntropyScore([i \in 1..Len(d.items) |-> d.items[i].txt])

SearchEngineEntropy(d) ==
    IF d.type # "list" /\ d.type # "NoneType"
    THEN Raise("ValueError", "Input must be a list of strings or None")
    ELSE IF d.type = "NoneType" \/ d.items = <<>>
    THEN Return(0)
    ELSE IF \E i \in 1..Len(d.items) : d.items[i].type # "str"
    THEN Raise("ValueError", "All elements must be strings")
    ELSE IF Cardinality({d.items[i] : i \in 1..Len(d.items)}) = 1
    THEN Return(0)
    ELSE SearchEntropyScore([i \in 1..Len(d.items) |-> d.items[i].txt])

\* -------------------------------------------------------- ContextualEntropy
\* str.strip(): blanks removed at both ends
RECURSIVE LStrip(_)
LStrip(s) == IF s # <<>> /\ Head(s) = " " THEN LStrip(Tail(s)) ELSE s
RECURSIVE RStrip(_)
RStrip(s) == IF s # <<>> /\ s[Len(s)] = " " THEN RStrip(SubSeq(s, 1, Len(s) - 1)) ELSE s
Strip(s) == RStrip(LStrip(s))

RECURSIVE DigitsVal(_)
DigitsVal(s) == IF s = <<>> THEN 0 ELSE DigitsVal(SubSeq(s, 1, Len(s) - 1)) * 10 + DigitVal(s[Len(s)])

\* float(s) of a str: an optional sign, then nan, inf or a decimal numeral
\* with at least one digit and at most one point; anything else (the empty
\* text, an inner blank, any other character) is a ValueError.  The value is
\* in units of 1/Unit.
ParseFloat(s) ==
    LET t == Strip(s)
        signed == t # <<>> /\ t[1] \in {"-", "+"}
        neg == t # <<>> /\ t[1] = "-"
        r == IF signed THEN Tail(t) ELSE t
        dots == {i \in 1..Len(r) : r[i] = "."}
        dot == IF dots = {} THEN Len(r) + 1 ELSE CHOOSE i \in dots : TRUE
        ip == SubSeq(r, 1, dot - 1)
        fp == SubSeq(r, dot + 1, Len(r))
        mag == DigitsVal(ip) * Unit + (DigitsVal(fp) * Unit) \div (10 ^ Len(fp))
    IN  IF r = <<"n", "a", "n">> THEN ReturnNonFinite("nan")
        ELSE IF r = <<"i", "n", "f">>
        THEN ReturnNonFinite(IF neg THEN "-inf" ELSE "inf")
        ELSE IF /\ Cardinality(dots) <= 1
                /\ \A i \in 1..Len(r) : IsDigit(r[i]) \/ r[i] = "."
                /\ \E i \in 1..Len(r) : IsDigit(r[i])
        THEN Return(IF neg THEN -mag ELSE mag)
        ELSE Raise("ValueError", "could not convert string to float")

\* JudgeScore without the division by 10.0
JudgeScoreUndivided(f) ==
    IF f.cls = "finite" THEN Return(f.val) ELSE f

\* float(...) / 10.0, line 78
JudgeScore(f) ==
    IF f.cls = "finite" THEN Return(f.val \div JudgeScale) ELSE f

\* ContextualGuard without the type test of lines 58-59
ContextualGuardNoTypeCheck(d) ==
    IF d.type = "NoneType" \/ (d.type = "str" /\ d.txt = <<>>)
    THEN Return(0)
    ELSE NoOutcome

\* ContextualGuard without the emptiness test of lines 61-62
ContextualGuardNoEmptyTest(d) ==
    IF d.type # "str" /\ d.type # "NoneType"
    THEN Raise("ValueError", "Input must be a string or None")
    ELSE NoOutcome

\* lines 58-62: what compute_entropy settles before the try block
\* (NoOutcome: the call goes on to the try block)
ContextualGuard(d) ==
    IF d.type # "str" /\ d.type # "NoneType"
    THEN Raise("ValueError", "Input must be a string or None")
    ELSE IF d.type = "NoneType" \/ d.txt = <<>>
    THEN Return(0)
    ELSE NoOutcome

\* --------------------------------------------------------- EntropyStrategy
\* strategy.compute_entropy(d), by the class of the strategy; for
\* ContextualEntropy what it settles before its try block
ComputeEntropy(name, d) ==
    CASE name = "text" -> TextEntropy(d)
      [] name = "numerical" -> NumericalEntropy(d)
      [] name = "search" -> SearchEngineEntropy(d)
      [] name = "time" -> TimeEntropy(d)
      [] name = "contextual" -> ContextualGuard(d)

\* ----------------------------------------------------------- EntropyFactory
\* the keys of the dict of lines 39-45
KeyText == <<"t", "e", "x", "t">>
KeyNumerical == <<"n", "u", "m", "e", "r", "i", "c", "a", "l">>
KeySearch == <<"s", "e", "a", "r", "c", "h">>
KeyContextual == <<"c", "o", "n", "t", "e", "x", "t", "u", "a", "l">>
KeyTime == <<"t", "i", "m", "e">>

\* StrategyOf with the values of "search" and "time" exchanged
StrategyOfSwapped(k) ==
    IF k = KeyText THEN "text"
    ELSE IF k = KeyNumerical THEN "numerical"
    ELSE IF k = KeySearch THEN "time"
    ELSE IF k = KeyContextual THEN "contextual"
    ELSE IF k = KeyTime THEN "search"
    ELSE ""

\* StrategyOf as strategies.get(strategy_type, TextEntropy()) would be
StrategyOfDefault(k) ==
    IF k = KeyText THEN "text"
    ELSE IF k = KeyNumerical THEN "numerical"
    ELSE IF k = KeySearch THEN "search"
    ELSE IF k = KeyContextual THEN "contextual"
    ELSE IF k = KeyTime THEN "time"
    ELSE "text"

\* the dict of lines 39-45: the strategy type of a key, "" for a text that
\* is no key (line 47)
StrategyOf(k) ==
    IF k = KeyText THEN "text"
    ELSE IF k = KeyNumerical THEN "numerical"
    ELSE IF k = KeySearch THEN "search"
    ELSE IF k = KeyContextual THEN "contextual"
    ELSE IF k = KeyTime THEN "time"
    ELSE ""

\* str(n) of an int n >= 0
RECURSIVE IntStr(_)
IntStr(n) == IF n < 10 THEN <<DigitChar[n + 1]>> ELSE IntStr(n \div 10) \o <<DigitChar[(n % 10) + 1]>>

\* repr(v) and str(v), which the f-string of line 48 applies, of the values
\* of the model: None, an int, a str without quotes, a list of these
RECURSIVE Repr(_)
Repr(v) ==
    IF v.type = "NoneType" THEN <<"N", "o", "n", "e">>
    ELSE IF v.type = "int" THEN IntStr(v.num)
    ELSE IF v.type = "str" THEN <<"'">> \o v.txt \o <<"'">>
    ELSE <<"[">>
         \o ConcatAll([i \in 1..Len(v.items) |->
                (IF i = 1 THEN <<>> ELSE <<",", " ">>) \o Repr(v.items[i])])
         \o <<"]">>
Str(v) == IF v.type = "str" THEN v.txt ELSE Repr(v)

MsgNotAString == <<"S", "t", "r", "a", "t", "e", "g", "y", " ", "t", "y", "p", "e", " ", "m", "u", "s", "t", " ", "b", "e", " ", "a", " ", "s", "t", "r", "i", "n", "g">>
MsgInvalidType == <<"I", "n", "v", "a", "l", "i", "d", " ", "S", "t", "r", "a", "t", "e", "g", "y", " ", "T", "y", "p", "e", ":", " ">>

\* get_entropy_calculator(strategy_type): the type of the strategy returned
\* (calc, "" when it raises), the exception raised (error, "" when it
\* returns) and str(e) of it (text)
GetEntropyCalculator(t) ==
    IF t.type # "str"
    THEN [calc |-> "", error |-> "ValueError", text |-> MsgNotAString]
    ELSE IF StrategyOf(t.txt) = ""
    THEN [calc |-> "", error |-> "ValueError", text |-> MsgInvalidType \o Str(t)]
    ELSE [calc |-> StrategyOf(t.txt), error |-> "", text |-> <<>>]

\* ------------------------------------------------------------ library calls
\* the numerical-library calls one compute_entropy call executes, by the
\* statement each strategy reaches
TextLibCalls(d) ==
    IF d.type = "str" /\ d.txt # <<>> THEN {"Counter", "entropy"} ELSE {}

NumericalLibCalls(d) ==
    IF /\ d.type = "list" /\ Len(d.items) >= 2
       /\ \A i \in 1..Len(d.items) : IsNumber(d.items[i]) /\ IsFinite(d.items[i])
    THEN {"histogram", "entropy"} ELSE {}

SearchLibCalls(d) ==
    IF /\ d.type = "list" /\ d.items # <<>>
       /\ \A i \in 1..Len(d.items) : d.items[i].type = "str"
       /\ Cardinality({d.items[i] : i \in 1..Len(d.items)}) # 1
    THEN {"fit_transform"} ELSE {}

\* ------------------------------------------------------------------ inputs
Chars == {"a", "b"}
Strings == SeqsUpTo(Chars, MaxTextLen)

TextInputs ==
    {PyStr(s) : s \in Strings}
    \cup {PyStr(<<" ">>), PyNone, PyInt(123), PyFloat(15000), PyList(<<>>), PyList(<<PyStr(<<"a">>)>>)}

NumberElems ==
    {PyInt(1), PyInt(2), PyInt(3), PyFloat(15000), PyNonFinite("inf"), PyNonFinite("-inf"),
     PyNonFinite("nan"), PyStr(<<"2">>)}
NumericalInputs ==
    {PyList(l) : l \in SeqsUpTo(NumberElems, MaxListLen)}
    \cup {PyNone, PyStr(<<"1", "2", "3">>), PyInt(123)}

ResultElems ==
    {PyStr(<<>>), PyStr(<<" ">>), PyStr(<<"a">>), PyStr(<<"a", "b">>), PyStr(<<"b", " ", "a">>),
     PyInt(1)}
SearchInputs ==
    {PyList(l) : l \in SeqsUpTo(ResultElems, MaxListLen)}
    \cup {PyNone, PyStr(<<"a", "b">>), PyInt(123)}

TimestampElems ==
    {PyStr(DateStr(2023, 1, 1)), PyStr(DateStr(2023, 1, 2)), PyStr(DateStr(2023, 1, 4)),
     PyStr(DateTimeStr(2023, 1, 1, 100)), PyStr(DateTimeStr(2023, 1, 1, 200)),
     PyStr(DateStr(2023, 13, 1)), PyStr(DateStr(2023, 2, 30)), PyInt(1)}
TimeInputs ==
    {PyList(l) : l \in SeqsUpTo(TimestampElems, MaxListLen)}
    \cup {PyNone, PyStr(DateStr(2023, 1, 1)), PyInt(123)}

\* what the judge may answer: no choice, a message without text, a message
\* whose content is no str, or a text
ContentChars == {" ", "-", "0", "1", ".", "n", "a"}
NoResponse == [choices |-> 0, ctype |-> "", content |-> <<>>]
Responses ==
    {[choices |-> 0, ctype |-> "NoneType", content |-> <<>>],
     [choices |-> 1, ctype |-> "NoneType", content |-> <<>>],
     [choices |-> 1, ctype |-> "other", content |-> <<>>]}
    \cup {[choices |-> 1, ctype |-> "str", content |-> c] : c \in SeqsUpTo(ContentChars, MaxContentLen)}

\* what get_entropy_calculator may be given: the five keys, other texts,
\* None, an int, lists
Tokens ==
    {PyStr(KeyText), PyStr(KeyNumerical), PyStr(KeySearch), PyStr(KeyContextual), PyStr(KeyTime),
     PyStr(<<>>), PyStr(<<"T", "E", "S", "T">>), PyStr(<<"T", "e", "x", "t">>),
     PyStr(<<"u", "n", "k", "n", "o", "w", "n">>), PyStr(<<"t", "e", "x", "t", " ">>),
     PyNone, PyInt(123), PyList(<<>>), PyList(<<PyStr(KeyText)>>)}

\* ----------------------------------------------------------------- threads
\* the threads that call compute_entropy on the shared strategy instances
MaxThreads == 2
Threads == 1..MaxThreads

\* the locals of one thread's compute_entropy call
ThreadIdle ==
    [tstrategy |-> "none", tdata |-> PyNone, tclient |-> "none", tpc |-> "idle",
     tresponse |-> NoResponse, tcaught |-> "", toutcome |-> NoOutcome]

\* the arguments the threads pass, by strategy
ThreadInputs(name) ==
    CASE name = "text" -> {PyStr(<<"a", "b">>), PyInt(123)}
      [] name = "numerical" -> {PyList(<<PyInt(1), PyInt(2)>>)}
      [] name = "search" -> {PyList(<<PyStr(<<"a">>), PyStr(<<"a", "b">>)>>)}
      [] name = "time" -> {PyList(<<PyStr(DateStr(2023, 13, 1))>>)}
      [] name = "contextual" -> {PyStr(<<"a", "b">>), PyStr(<<"b">>)}

\* what the judge may answer a thread
ThreadResponses ==
    {[choices |-> 0, ctype |-> "NoneType", content |-> <<>>],
     [choices |-> 1, ctype |-> "str", content |-> <<"1">>]}

\* --------------------------------------------------------------- workflow
\* rich.print(markup), which Printer.print_message calls: a text "[...]" whose
\* first character is a lower-case letter, "#", "/" or "@" and that holds no
\* "[" is a tag; a tag "/name" closes the open tag of that name, "/" the one
\* opened last, and a closing tag with nothing to close raises MarkupError.
\* (No text of the model holds a backslash, which would escape a tag.)
LowerCase == {"a", "b", "c", "d", "e", "f", "g", "h", "i", "j", "k", "l", "m", "n", "o", "p", "q", "r", "s", "t", "u", "v", "w", "x", "y", "z"}
IsTagStart(c) == c \in LowerCase \cup {"#", "/", "@"}

\* where the tag that starts at m[i] = "[" ends, 0 when no tag starts there
TagEnd(m, i) ==
    LET br == {k \in (i + 1)..Len(m) : m[k] \in {"[", "]"}}
        k == CHOOSE k \in br : \A j \in br : k <= j
    IN  IF i < Len(m) /\ IsTagStart(m[i + 1]) /\ br # {} /\ m[k] = "]" THEN k ELSE 0

\* the name of a tag: its text up to the first "="
TagName(tag) ==
    LET eq == {k \in 1..Len(tag) : tag[k] = "="}
    IN  IF eq = {} THEN tag ELSE SubSeq(tag, 1, (CHOOSE k \in eq : \A j \in eq : k <= j) - 1)

\* the stack of open tags without the last one opened under the name
RemoveLast(stack, name) ==
    LET at == {k \in 1..Len(stack) : stack[k] = name}
        k == CHOOSE k \in at : \A j \in at : k >= j
    IN  SubSeq(stack, 1, k - 1) \o SubSeq(stack, k + 1, Len(stack))

MsgNoOpenTag(tag, pos) ==
    <<"c", "l", "o", "s", "i", "n", "g", " ", "t", "a", "g", " ", "'">> \o <<"[">> \o tag \o <<"]">>
    \o <<"'", " ", "a", "t", " ", "p", "o", "s", "i", "t", "i", "o", "n", " ">> \o IntStr(pos)
    \o <<" ", "d", "o", "e", "s", "n", "'", "t", " ", "m", "a", "t", "c", "h", " ", "a", "n", "y", " ", "o", "p", "e", "n", " ", "t", "a", "g">>
MsgNothingToClose(pos) ==
    <<"c", "l", "o", "s", "i", "n", "g", " ", "t", "a", "g", " ", "'", "[", "/", "]", "'", " ", "a", "t", " ", "p", "o", "s", "i", "t", "i", "o", "n", " ">> \o IntStr(pos)
    \o <<" ", "h", "a", "s", " ", "n", "o", "t", "h", "i", "n", "g", " ", "t", "o", " ", "c", "l", "o", "s", "e">>

\* rich.markup.render from position i on, stack holding the open tags:
\* str(e) of the MarkupError it raises, <<>> when it raises none
RECURSIVE MarkupScan(_, _, _)
MarkupScan(m, i, stack) ==
    IF i > Len(m) THEN <<>>
    ELSE IF m[i] # "[" \/ TagEnd(m, i) = 0 THEN MarkupScan(m, i + 1, stack)
    ELSE LET j == TagEnd(m, i)
             tag == SubSeq(m, i + 1, j - 1)
             name == TagName(tag)
             closes == Strip(Tail(name))
         IN  IF name[1] # "/" THEN MarkupScan(m, j + 1, Append(stack, Strip(name)))
             ELSE IF closes = <<>>
             THEN IF stack = <<>> THEN MsgNothingToClose(i - 1)
                  ELSE MarkupScan(m, j + 1, SubSeq(stack, 1, Len(stack) - 1))
             ELSE IF \E k \in 1..Len(stack) : stack[k] = closes
             THEN MarkupScan(m, j + 1, RemoveLast(stack, closes))
             ELSE MsgNoOpenTag(tag, i - 1)

\* PrinterColor.RED and PrinterColor.GREY0
ColorRed == <<"r", "e", "d">>
ColorGrey0 == <<"g", "r", "e", "y", "0">>

\* Printer.print_message(message, color): rprint(f"[{color}]{message}[/{color}]");
\* str(e) of the MarkupError raised, <<>> when the message is printed
PrintMessage(message, color) ==
    MarkupScan(<<"[">> \o color \o <<"]">> \o message \o <<"[", "/">> \o color \o <<"]">>, 1, <<>>)

\* the exception in flight in BaseWorkflow.run
NoError == [wtype |-> "", wtext |-> <<>>]
WfError(t, m) == [wtype |-> t, wtext |-> m]

\* the literal parts of the f-strings of BaseWorkflow.run
TxtInputValidationFailed == <<"I", "n", "p", "u", "t", " ", "v", "a", "l", "i", "d", "a", "t", "i", "o", "n", " ", "f", "a", "i", "l", "e", "d", ":", " ">>
TxtInputData == <<"I", "n", "p", "u", "t", " ", "d", "a", "t", "a", ":", " ">>
TxtInvalidInputData == <<"I", "n", "v", "a", "l", "i", "d", " ", "i", "n", "p", "u", "t", " ", "d", "a", "t", "a", ":", " ">>
TxtExecutionFailed == <<"W", "o", "r", "k", "f", "l", "o", "w", " ", "e", "x", "e", "c", "u", "t", "i", "o", "n", " ", "f", "a", "i", "l", "e", "d", ":", " ">>
TxtOutputValidationFailed == <<"O", "u", "t", "p", "u", "t", " ", "v", "a", "l", "i", "d", "a", "t", "i", "o", "n", " ", "f", "a", "i", "l", "e", "d", ":", " ">>
TxtOutputData == <<"O", "u", "t", "p", "u", "t", " ", "d", "a", "t", "a", ":", " ">>
TxtInvalidOutputData == <<"I", "n", "v", "a", "l", "i", "d", " ", "o", "u", "t", "p", "u", "t", " ", "d", "a", "t", "a", ":", " ">>
TxtWorkflowResult == <<"W", "o", "r", "k", "f", "l", "o", "w", " ", "r", "e", "s", "u", "l", "t", ":", " ">>
TxtWorkflowFailed == <<"W", "o", "r", "k", "f", "l", "o", "w", " ", "f", "a", "i", "l", "e", "d", ":", " ">>
TxtStartingWorkflow == <<"S", "t", "a", "r", "t", "i", "n", "g", " ", "w", "o", "r", "k", "f", "l", "o", "w", ":", " ">>
TxtDescription == <<"D", "e", "s", "c", "r", "i", "p", "t", "i", "o", "n", ":", " ">>
TxtCompleted == <<"W", "o", "r", "k", "f", "l", "o", "w", " ", "c", "o", "m", "p", "l", "e", "t", "e", "d", " ", "s", "u", "c", "c", "e", "s", "s", "f", "u", "l", "l", "y", ":", " ">>
TxtFailedToInitialize == <<"F", "a", "i", "l", "e", "d", " ", "t", "o", " ", "i", "n", "i", "t", "i", "a", "l", "i", "z", "e", " ", "w", "o", "r", "k", "f", "l", "o", "w", ":", " ">>
TxtInvalidIdType == <<"I", "n", "v", "a", "l", "i", "d", " ", "w", "o", "r", "k", "f", "l", "o", "w", " ", "I", "D", " ", "t", "y", "p", "e", " ", "[">>
TxtOnlyStrings == <<"]", ".", " ", "O", "n", "l", "y", " ", "s", "t", "r", "i", "n", "g", "s", " ", "a", "l", "l", "o", "w", "e", "d", ".">>
Dot == <<".">>

\* the first of the prints ps (their MarkupError texts) that raised, <<>>
\* when none did
RECURSIVE FirstRaised(_)
FirstRaised(ps) ==
    IF ps = <<>> THEN <<>>
    ELSE IF Head(ps) # <<>> THEN Head(ps)
    ELSE FirstRaised(Tail(ps))

\* an except block of run that prints ps and then raises WfError(t, m): the
\* exception that leaves the block
Handler(ps, t, m) ==
    IF FirstRaised(ps) # <<>> THEN WfError("MarkupError", FirstRaised(ps)) ELSE WfError(t, m)

\* the workflow object: whether input_model and output_model are set, verbose,
\* and the texts of workflow_id, name and description
NoConfig ==
    [input_model |-> FALSE, output_model |-> FALSE, verbose |-> FALSE,
     workflow_id |-> <<>>, name |-> <<>>, description |-> <<>>]

\* texts that str() of a value or of an exception may give: one without a
\* tag and one with a closing tag
WorkflowTexts == {<<"x">>, <<"[", "/", "x", "]">>}

\* the workflow_id arguments of the constructor: absent, strings, non-strings
WorkflowIds == {PyNone, PyStr(<<>>), PyStr(<<"w">>), PyInt(0), PyInt(123)}

\* what str(uuid.uuid4()) may give
Uuids == {<<"u", "1">>, <<"u", "2">>}

\* input_data: whether the input model accepts it, str() of it, and str(e)
\* of the validation error when it does not
NoInput == [ivalid |-> TRUE, itext |-> <<>>, icause |-> <<>>]
WorkflowInputs ==
    {[ivalid |-> TRUE, itext |-> x, icause |-> <<>>] : x \in WorkflowTexts}
    \cup {[ivalid |-> FALSE, itext |-> x, icause |-> c] : x \in WorkflowTexts, c \in WorkflowTexts}

\* _run_workflow: whether it raises (rcause is str(e)) or returns a result
\* (rtext is str(result)), and whether the output model accepts the result
\* (rcause is str(e) of the validation error when it does not)
NoRun == [rraises |-> FALSE, rtext |-> <<>>, rvalid |-> TRUE, rcause |-> <<>>]
WorkflowRuns ==
    {[rraises |-> TRUE, rtext |-> <<>>, rvalid |-> TRUE, rcause |-> c] : c \in WorkflowTexts}
    \cup {[rraises |-> FALSE, rtext |-> x, rvalid |-> TRUE, rcause |-> <<>>] : x \in WorkflowTexts}
    \cup {[rraises |-> FALSE, rtext |-> x, rvalid |-> FALSE, rcause |-> c] :
             x \in WorkflowTexts, c \in WorkflowTexts}

\* -------------------------------------------------------------------- LLM
\* the literal parts of the messages of llm.py
TxtGeneratingWithModel == <<"G", "e", "n", "e", "r", "a", "t", "i", "n", "g", " ", "c", "h", "a", "t", " ", "c", "o", "m", "p", "l", "e", "t", "i", "o", "n", " ", "w", "i", "t", "h", " ", "m", "o", "d", "e", "l", ":", " ">>
TxtGeneratedResponse == <<"S", "u", "c", "c", "e", "s", "s", "f", "u", "l", "l", "y", " ", "g", "e", "n", "e", "r", "a", "t", "e", "d", " ", "r", "e", "s", "p", "o", "n", "s", "e", ":", " ">>
CtxFailedToGenerate == <<"F", "a", "i", "l", "e", "d", " ", "t", "o", " ", "g", "e", "n", "e", "r", "a", "t", "e", " ", "c", "h", "a", "t", " ", "c", "o", "m", "p", "l", "e", "t", "i", "o", "n">>
CtxErrorInGenerate == <<"E", "r", "r", "o", "r", " ", "i", "n", " ", "g", "e", "n", "e", "r", "a", "t", "e", "_", "r", "e", "s", "p", "o", "n", "s", "e">>
ErrorInPrefix == <<"E", "r", "r", "o", "r", " ", "i", "n">>

\* str.startswith
StartsWith(s, prefix) == Len(s) >= Len(prefix) /\ SubSeq(s, 1, Len(prefix)) = prefix

\* BaseLLM._handle_error(error, context), error being an exception of str(e)
\* = text: the exception that leaves it
HandleError(text, context) ==
    LET error_msg == context \o <<":", " ">> \o text
    IN  Handler(<<PrintMessage(error_msg, ColorRed)>>,
                IF StartsWith(context, ErrorInPrefix) THEN "ValueError" ELSE "RuntimeError",
                error_msg)

\* input_data: whether ChatInput accepts it (lcause is str(e) of the
\* validation error when it does not) and the model it names
NoChatInput == [lvalid |-> TRUE, lcause |-> <<>>, lmodel |-> <<>>]
ChatInputs ==
    {[lvalid |-> TRUE, lcause |-> <<>>, lmodel |-> m] : m \in WorkflowTexts}
    \cup {[lvalid |-> FALSE, lcause |-> c, lmodel |-> <<>>] : c \in WorkflowTexts}

\* what the client and the response do in one call: create() raises (atext
\* is str(e)), or it returns a response that ChatResponse rejects (atext is
\* str(e)) or accepts (adump is str() of its model_dump())
NoCompletion == [araises |-> FALSE, aprocessed |-> TRUE, atext |-> <<>>, adump |-> <<>>]
Completions ==
    {[araises |-> TRUE, aprocessed |-> FALSE, atext |-> c, adump |-> <<>>] : c \in WorkflowTexts}
    \cup {[araises |-> FALSE, aprocessed |-> FALSE, atext |-> c, adump |-> <<>>] : c \in WorkflowTexts}
    \cup {[araises |-> FALSE, aprocessed |-> TRUE, atext |-> <<>>, adump |-> c] : c \in WorkflowTexts}

\* ------------------------------------------------------------------- state
VARIABLES
    strategy,      \* the strategy of the current (or last) compute_entropy call
    data,          \* its argument
    client,        \* ContextualEntropy: the client argument, "none" when absent
    pc,            \* "idle", "done", or the position inside ContextualEntropy
    response,      \* the judge's response, once received
    caught,        \* the exception the try block raised, "" when none
    outcome,       \* what the call returned or raised
    requests,      \* judge requests issued by the current call
    constructed,   \* OpenAI() constructions attempted by the current call
    fallbacks,     \* TextEntropy fallbacks computed by the current call
    libcalls,      \* the numerical-library calls the current call executed
    token,         \* EntropyFactory: the strategy_type argument
    calculator,    \* EntropyFactory: the type of the strategy returned, "" when none
    message,       \* EntropyFactory: str(e) of the error raised, as characters
    tcall,         \* threads: the compute_entropy call of each thread (its locals)
    attrs,         \* threads: the attributes set on the shared strategy instances
    lclass,        \* LLM: "LLM" or "AsyncLLM", "" before the construction
    lverbose,      \* LLM: the attribute verbose
    linput,        \* LLM: the input_data of the current generate_response call
    lcompletion,   \* LLM: what the client and its response do in this call
    lpc,           \* LLM: the position inside generate_response
    lerror,        \* LLM: the exception in flight, at the end the one raised
    lrequests,     \* LLM: chat-completion requests made in this call
    lfailed,       \* LLM: the step of this call that failed, "" when none
    wprev,         \* workflow: how the run before ended, "" when there was none
    wctor,         \* workflow: the workflow_id argument of the constructor
    wconfig,       \* workflow: the attributes of the workflow object
    winput,        \* workflow: the input_data of the current run
    wrun,          \* workflow: what _run_workflow does in the current run
    wpc,           \* workflow: the position inside BaseWorkflow.run
    werror,        \* workflow: the exception in flight, then the one run raised
    wstages,       \* workflow: the stages the current run has entered, in order
    wfailed        \* workflow: the stage that failed, "" when none

\* the state of a single caller, of the threads, of a workflow
callVars == <<strategy, data, client, pc, response, caught, outcome, requests, constructed,
              fallbacks, libcalls, token, calculator, message>>
threadVars == <<tcall, attrs>>
llmVars == <<lclass, lverbose, linput, lcompletion, lpc, lerror, lrequests, lfailed>>
workflowVars == <<wprev, wctor, wconfig, winput, wrun, wpc, werror, wstages, wfailed>>
vars == <<callVars, threadVars, workflowVars, llmVars>>

Init ==
    /\ strategy = "none"
    /\ data = PyNone
    /\ client = "none"
    /\ pc = "idle"
    /\ response = NoResponse
    /\ caught = ""
    /\ outcome = NoOutcome
    /\ requests = 0
    /\ constructed = 0
    /\ fallbacks = 0
    /\ libcalls = {}
    /\ token = PyNone
    /\ calculator = ""
    /\ message = <<>>
    /\ tcall = [t \in Threads |-> ThreadIdle]
    /\ attrs = {}
    /\ lclass = ""
    /\ lverbose = FALSE
    /\ linput = NoChatInput
    /\ lcompletion = NoCompletion
    /\ lpc = "unbuilt"
    /\ lerror = NoError
    /\ lrequests = 0
    /\ lfailed = ""
    /\ wprev = ""
    /\ wctor = PyNone
    /\ wconfig = NoConfig
    /\ winput = NoInput
    /\ wrun = NoRun
    /\ wpc = "unbuilt"
    /\ werror = NoError
    /\ wstages = <<>>
    /\ wfailed = ""

\* where a compute_entropy call starts: on a strategy the caller constructed
\* (Ready), or on the one get_entropy_calculator returned (Obtained)
Ready == pc = "idle"
Obtained(name) == pc = "got" /\ calculator = name

\* the factory call is over: compute_entropy holds the strategy as self
NoFactory ==
    /\ token' = PyNone
    /\ calculator' = ""
    /\ message' = <<>>

\* a call that talks to nobody: no client, no request, nothing caught
NoJudge ==
    /\ client' = "none"
    /\ response' = NoResponse
    /\ caught' = ""
    /\ requests' = 0
    /\ constructed' = 0
    /\ fallbacks' = 0

\* EntropyFactory.get_entropy_calculator(strategy_type): the caller holds
\* the strategy returned (pc "got") or the error raised, whose text is message
FactoryGet ==
    \E t \in Tokens :
        /\ Ready
        /\ token' = t
        /\ calculator' = GetEntropyCalculator(t).calc
        /\ message' = GetEntropyCalculator(t).text
        /\ outcome' = IF GetEntropyCalculator(t).error = "" THEN NoOutcome
                      ELSE Raise(GetEntropyCalculator(t).error, "")
        /\ pc' = IF GetEntropyCalculator(t).error = "" THEN "got" ELSE "done"
        /\ strategy' = "none"
        /\ data' = PyNone
        /\ libcalls' = {}
        /\ NoJudge
        /\ UNCHANGED <<threadVars, workflowVars, llmVars>>

\* TextEntropy.compute_entropy(text): one step from argument to outcome
TextCompute ==
    \E d \in TextInputs :
        /\ Ready \/ Obtained("text")
        /\ strategy' = "text"
        /\ data' = d
        /\ libcalls' = TextLibCalls(d)
        /\ NoFactory
        /\ outcome' = TextEntropy(d)
        /\ pc' = "done"
        /\ NoJudge
        /\ UNCHANGED <<threadVars, workflowVars, llmVars>>

\* NumericalEntropy.compute_entropy(numbers)
NumericalCompute ==
    \E d \in NumericalInputs :
        /\ Ready \/ Obtained("numerical")
        /\ strategy' = "numerical"
        /\ data' = d
        /\ libcalls' = NumericalLibCalls(d)
        /\ NoFactory
        /\ outcome' = NumericalEntropy(d)
        /\ pc' = "done"
        /\ NoJudge
        /\ UNCHANGED <<threadVars, workflowVars, llmVars>>

\* SearchEngineEntropy.compute_entropy(results)
SearchCompute ==
    \E d \in SearchInputs :
        /\ Ready \/ Obtained("search")
        /\ strategy' = "search"
        /\ data' = d
        /\ libcalls' = SearchLibCalls(d)
        /\ NoFactory
        /\ outcome' = SearchEngineEntropy(d)
        /\ pc' = "done"
        /\ NoJudge
        /\ UNCHANGED <<threadVars, workflowVars, llmVars>>

\* TimeEntropy.compute_entropy(timestamps)
TimeCompute ==
    \E d \in TimeInputs :
        /\ Ready \/ Obtained("time")
        /\ strategy' = "time"
        /\ data' = d
        /\ libcalls' = TimeLibCalls(d)
        /\ NoFactory
        /\ outcome' = TimeEntropy(d)
        /\ pc' = "done"
        /\ NoJudge
        /\ UNCHANGED <<threadVars, workflowVars, llmVars>>

\* ContextualEntropy.compute_entropy(text, client), lines 58-62
CtxCall ==
    \E d \in TextInputs, c \in {"none", "supplied"} :
        /\ Ready \/ Obtained("contextual")
        /\ libcalls' = {}
        /\ NoFactory
        /\ strategy' = "contextual"
        /\ data' = d
        /\ client' = c
        /\ outcome' = ContextualGuard(d)
        /\ pc' = IF ContextualGuard(d) = NoOutcome THEN "try" ELSE "done"
        /\ response' = NoResponse
        /\ caught' = ""
        /\ requests' = 0
        /\ constructed' = 0
        /\ fallbacks' = 0
        /\ UNCHANGED <<threadVars, workflowVars, llmVars>>

\* lines 65-66: the default client is constructed when none was supplied;
\* OpenAI() raises when it finds no credentials
CtxClient ==
    /\ pc = "try"
    /\ IF client # "none"
       THEN /\ pc' = "request"
            /\ UNCHANGED <<client, caught, constructed>>
       ELSE /\ constructed' = constructed + 1
            /\ \/ /\ client' = "default"
                  /\ pc' = "request"
                  /\ caught' = caught
               \/ /\ client' = client
                  /\ pc' = "except"
                  /\ caught' = "OpenAIError"
    /\ UNCHANGED <<strategy, data, response, outcome, requests, fallbacks, libcalls, token, calculator, message,
                 threadVars, workflowVars, llmVars>>

\* lines 67-77: one chat-completion request; it raises (timeout, network or
\* API error) or returns a response
CtxRequest ==
    /\ pc = "request"
    /\ requests' = requests + 1
    /\ \/ /\ pc' = "except"
          /\ caught' \in {"APITimeoutError", "APIConnectionError"}
          /\ response' = response
       \/ /\ pc' = "parse"
          /\ caught' = caught
          /\ response' \in Responses
    /\ UNCHANGED <<strategy, data, client, outcome, constructed, fallbacks, libcalls, token, calculator, message,
                 threadVars, workflowVars, llmVars>>

\* line 78: response.choices[0].message.content.strip(), float(), / 10.0
CtxParse ==
    /\ pc = "parse"
    /\ LET f == ParseFloat(response.content)
           exc == IF response.choices = 0 THEN "IndexError"
                  ELSE IF response.ctype = "NoneType" THEN "AttributeError"
                  ELSE IF response.ctype # "str" THEN "TypeError"
                  ELSE IF f.kind = "raise" THEN f.exc
                  ELSE ""
       IN  IF exc # ""
           THEN /\ pc' = "except"
                /\ caught' = exc
                /\ outcome' = outcome
           ELSE /\ pc' = "done"
                /\ caught' = caught
                /\ outcome' = JudgeScore(f)
    /\ UNCHANGED <<strategy, data, client, response, requests, constructed, fallbacks, libcalls, token, calculator, message,
                 threadVars, workflowVars, llmVars>>

\* CtxFallback with "except ValueError" in place of "except Exception":
\* every other exception leaves compute_entropy
CtxFallbackValueErrorOnly ==
    /\ pc = "except"
    /\ pc' = "done"
    /\ outcome' = IF caught = "ValueError" THEN TextEntropy(data) ELSE Raise(caught, "")
    /\ fallbacks' = IF caught = "ValueError" THEN fallbacks + 1 ELSE fallbacks
    /\ libcalls' = IF caught = "ValueError" THEN TextLibCalls(data) ELSE libcalls
    /\ UNCHANGED <<strategy, data, client, response, caught, requests, constructed, token, calculator, message,
                 threadVars, workflowVars, llmVars>>

\* CtxFallback with one more attempt after a request that raised
CtxFallbackRetry ==
    /\ pc = "except"
    /\ IF caught \in {"APITimeoutError", "APIConnectionError"} /\ requests < 2
       THEN /\ pc' = "request"
            /\ UNCHANGED <<outcome, fallbacks, libcalls>>
       ELSE /\ pc' = "done"
            /\ outcome' = TextEntropy(data)
            /\ fallbacks' = fallbacks + 1
            /\ libcalls' = TextLibCalls(data)
    /\ UNCHANGED <<strategy, data, client, response, caught, requests, constructed, token, calculator, message,
                 threadVars, workflowVars, llmVars>>

\* lines 79-80: except Exception: return TextEntropy().compute_entropy(text)
CtxFallback ==
    /\ pc = "except"
    /\ pc' = "done"
    /\ outcome' = TextEntropy(data)
    /\ fallbacks' = fallbacks + 1
    /\ libcalls' = TextLibCalls(data)
    /\ UNCHANGED <<strategy, data, client, response, caught, requests, constructed, token, calculator, message,
                 threadVars, workflowVars, llmVars>>

\* Finish with the strategy instance keeping the outcome of the call (a
\* cache of the last score)
FinishKeepsOutcome ==
    /\ pc = "done"
    /\ strategy' = "none"
    /\ data' = PyNone
    /\ client' = "none"
    /\ pc' = "idle"
    /\ response' = NoResponse
    /\ caught' = ""
    /\ outcome' = outcome
    /\ requests' = 0
    /\ constructed' = 0
    /\ fallbacks' = 0
    /\ libcalls' = {}
    /\ NoFactory
    /\ UNCHANGED <<threadVars, workflowVars, llmVars>>

\* the caller takes the outcome; the strategy keeps nothing of the call
Finish ==
    /\ pc = "done"
    /\ strategy' = "none"
    /\ data' = PyNone
    /\ client' = "none"
    /\ pc' = "idle"
    /\ response' = NoResponse
    /\ caught' = ""
    /\ outcome' = NoOutcome
    /\ requests' = 0
    /\ constructed' = 0
    /\ fallbacks' = 0
    /\ libcalls' = {}
    /\ NoFactory
    /\ UNCHANGED <<threadVars, workflowVars, llmVars>>

Next ==
    \/ Finish
    \/ FactoryGet
    \/ TextCompute
    \/ NumericalCompute
    \/ SearchCompute
    \/ TimeCompute
    \/ CtxCall
    \/ CtxClient
    \/ CtxRequest
    \/ CtxParse
    \/ CtxFallback

Spec == Init /\ [][Next]_vars

\* ------------------------------------------------------- concurrent callers
\* Each thread runs compute_entropy on a strategy instance all threads
\* share.  A thread's step reads and writes the locals of its own call; the
\* statistical strategies use nothing else, so their call is one step.
ThreadStep(t, c) ==
    /\ tcall' = [tcall EXCEPT ![t] = c]
    /\ UNCHANGED <<attrs, callVars, workflowVars, llmVars>>

\* TextEntropy, NumericalEntropy, SearchEngineEntropy, TimeEntropy
ThreadCompute(t) ==
    \E name \in {"text", "numerical", "search", "time"} :
        \E d \in ThreadInputs(name) :
            /\ tcall[t].tpc = "idle"
            /\ ThreadStep(t, [tstrategy |-> name, tdata |-> d, tclient |-> "none", tpc |-> "done",
                              tresponse |-> NoResponse, tcaught |-> "",
                              toutcome |-> ComputeEntropy(name, d)])

\* ContextualEntropy.compute_entropy(text, client), lines 58-62
ThreadCtxCall(t) ==
    \E d \in ThreadInputs("contextual") \cup {PyInt(123)}, c \in {"none", "supplied"} :
        /\ tcall[t].tpc = "idle"
        /\ ThreadStep(t, [tstrategy |-> "contextual", tdata |-> d, tclient |-> c,
                          tpc |-> IF ContextualGuard(d) = NoOutcome THEN "try" ELSE "done",
                          tresponse |-> NoResponse, tcaught |-> "",
                          toutcome |-> ContextualGuard(d)])

\* lines 65-66
ThreadCtxClient(t) ==
    /\ tcall[t].tpc = "try"
    /\ IF tcall[t].tclient # "none"
       THEN ThreadStep(t, [tcall[t] EXCEPT !.tpc = "request"])
       ELSE \/ ThreadStep(t, [tcall[t] EXCEPT !.tclient = "default", !.tpc = "request"])
            \/ ThreadStep(t, [tcall[t] EXCEPT !.tpc = "except", !.tcaught = "OpenAIError"])

\* lines 67-77
ThreadCtxRequest(t) ==
    /\ tcall[t].tpc = "request"
    /\ \/ ThreadStep(t, [tcall[t] EXCEPT !.tpc = "except", !.tcaught = "APITimeoutError"])
       \/ \E r \in ThreadResponses :
              ThreadStep(t, [tcall[t] EXCEPT !.tpc = "parse", !.tresponse = r])

\* line 78
ThreadCtxParse(t) ==
    /\ tcall[t].tpc = "parse"
    /\ LET r == tcall[t].tresponse
           f == ParseFloat(r.content)
           exc == IF r.choices = 0 THEN "IndexError"
                  ELSE IF r.ctype = "NoneType" THEN "AttributeError"
                  ELSE IF r.ctype # "str" THEN "TypeError"
                  ELSE IF f.kind = "raise" THEN f.exc
                  ELSE ""
       IN  IF exc # ""
           THEN ThreadStep(t, [tcall[t] EXCEPT !.tpc = "except", !.tcaught = exc])
           ELSE ThreadStep(t, [tcall[t] EXCEPT !.tpc = "done", !.toutcome = JudgeScore(f)])

\* ThreadCtxFallback with the text kept on the instance (self.text) by the
\* compute_entropy call that came last, whichever thread made it
ThreadCtxFallbackSharedText(t) ==
    /\ tcall[t].tpc = "except"
    /\ \E u \in Threads :
          /\ tcall[u].tstrategy = "contextual"
          /\ ThreadStep(t, [tcall[t] EXCEPT !.tpc = "done",
                                            !.toutcome = TextEntropy(tcall[u].tdata)])

\* lines 79-80
ThreadCtxFallback(t) ==
    /\ tcall[t].tpc = "except"
    /\ ThreadStep(t, [tcall[t] EXCEPT !.tpc = "done", !.toutcome = TextEntropy(tcall[t].tdata)])

\* the call returns to the thread, which may call again
ThreadReturn(t) ==
    /\ tcall[t].tpc = "done"
    /\ ThreadStep(t, ThreadIdle)

NextThreads ==
    \E t \in Threads :
        \/ ThreadCompute(t)
        \/ ThreadCtxCall(t)
        \/ ThreadCtxClient(t)
        \/ ThreadCtxRequest(t)
        \/ ThreadCtxParse(t)
        \/ ThreadCtxFallback(t)
        \/ ThreadReturn(t)

SpecThreads == Init /\ [][NextThreads]_vars

\* ------------------------------------------------------------- BaseWorkflow
\* run(input_data) as a whole, lines 116-180, on a workflow of attributes cfg:
\* the exception that reaches the handler of line 182, NoError when run
\* returns its result
RunError(cfg, inp, rn) ==
    LET start == IF cfg.verbose
                 THEN FirstRaised(
                        <<PrintMessage(TxtStartingWorkflow \o cfg.name \o <<" ", "(">>
                                       \o cfg.workflow_id \o <<")">> \o Dot, ColorGrey0),
                          PrintMessage(TxtInputData \o inp.itext \o Dot, ColorGrey0),
                          PrintMessage(TxtDescription \o cfg.description \o Dot, ColorGrey0)>>)
                 ELSE <<>>
        end == IF cfg.verbose
               THEN FirstRaised(
                      <<PrintMessage(TxtWorkflowResult \o rn.rtext \o Dot, ColorGrey0),
                        PrintMessage(TxtCompleted \o cfg.name \o Dot, ColorGrey0)>>)
               ELSE <<>>
    IN  IF cfg.input_model /\ ~inp.ivalid
        THEN Handler(<<PrintMessage(TxtInputValidationFailed \o inp.icause \o Dot, ColorRed),
                       PrintMessage(TxtInputData \o inp.itext \o Dot, ColorRed)>>,
                     "ValueError", TxtInvalidInputData \o inp.icause \o Dot)
        ELSE IF start # <<>> THEN WfError("MarkupError", start)
        ELSE IF rn.rraises
        THEN Handler(<<PrintMessage(TxtExecutionFailed \o rn.rcause \o Dot, ColorRed)>>,
                     "RuntimeError", TxtExecutionFailed \o rn.rcause \o Dot)
        ELSE IF cfg.output_model /\ ~rn.rvalid
        THEN Handler(<<PrintMessage(TxtOutputValidationFailed \o rn.rcause \o Dot, ColorRed),
                       PrintMessage(TxtOutputData \o rn.rtext \o Dot, ColorRed)>>,
                     "ValueError", TxtInvalidOutputData \o rn.rcause \o Dot)
        ELSE IF end # <<>> THEN WfError("MarkupError", end)
        ELSE NoError

\* what run(input_data) raises, lines 116-185, NoError when it returns
RunOutcome(cfg, inp, rn) ==
    LET e == RunError(cfg, inp, rn)
    IN  IF e = NoError THEN NoError
        ELSE Handler(<<PrintMessage(TxtWorkflowFailed \o e.wtext \o Dot, ColorRed)>>,
                     "SystemError", TxtWorkflowFailed \o e.wtext \o Dot)

\* BaseWorkflow.__init__, lines 78-93: a workflow_id that is neither None
\* nor a str fails the construction; a falsy workflow_id gives way to a UUID
WfConstruct ==
    /\ wpc = "unbuilt"
    /\ \E id \in WorkflowIds, im \in BOOLEAN, om \in BOOLEAN, vb \in BOOLEAN,
          nm \in WorkflowTexts, ds \in WorkflowTexts, u \in Uuids :
          /\ wctor' = id
          /\ IF id.type # "NoneType" /\ id.type # "str"
             THEN LET m == TxtFailedToInitialize \o TxtInvalidIdType \o Str(id)
                           \o TxtOnlyStrings \o Dot
                  IN  /\ wpc' = "init_raised"
                      /\ werror' = Handler(<<PrintMessage(m, ColorRed)>>, "RuntimeError", m)
                      /\ UNCHANGED wconfig
             ELSE /\ wpc' = "idle"
                  /\ wconfig' = [input_model |-> im, output_model |-> om, verbose |-> vb,
                                 workflow_id |-> IF id.type = "str" /\ id.txt # <<>>
                                                 THEN id.txt ELSE u,
                                 name |-> nm, description |-> ds]
                  /\ UNCHANGED werror
    /\ UNCHANGED <<wprev, winput, wrun, wstages, wfailed, callVars, threadVars, llmVars>>

\* run(input_data) is called, line 95
WfRun ==
    /\ wpc = "idle"
    /\ winput' \in WorkflowInputs
    /\ wrun' \in WorkflowRuns
    /\ wpc' = "validate_input"
    /\ UNCHANGED <<wprev, wctor, wconfig, werror, wstages, wfailed, callVars, threadVars, llmVars>>

\* WfValidateInput going on to the next stage after a validation failure
WfValidateInputGoesOn ==
    /\ wpc = "validate_input"
    /\ IF ~wconfig.input_model
       THEN /\ wpc' = "log_start"
            /\ UNCHANGED <<werror, wstages, wfailed>>
       ELSE /\ wstages' = Append(wstages, "input")
            /\ IF winput.ivalid
               THEN /\ wpc' = "log_start"
                    /\ UNCHANGED <<werror, wfailed>>
               ELSE /\ wpc' = "log_start"
                    /\ wfailed' = "input"
                    /\ werror' = Handler(
                          <<PrintMessage(TxtInputValidationFailed \o winput.icause \o Dot, ColorRed),
                            PrintMessage(TxtInputData \o winput.itext \o Dot, ColorRed)>>,
                          "ValueError", TxtInvalidInputData \o winput.icause \o Dot)
    /\ UNCHANGED <<wprev, wctor, wconfig, winput, wrun, callVars, threadVars, llmVars>>

\* lines 117-128: input validation, when an input model is set
WfValidateInput ==
    /\ wpc = "validate_input"
    /\ IF ~wconfig.input_model
       THEN /\ wpc' = "log_start"
            /\ UNCHANGED <<werror, wstages, wfailed>>
       ELSE /\ wstages' = Append(wstages, "input")
            /\ IF winput.ivalid
               THEN /\ wpc' = "log_start"
                    /\ UNCHANGED <<werror, wfailed>>
               ELSE /\ wpc' = "except"
                    /\ wfailed' = "input"
                    /\ werror' = Handler(
                          <<PrintMessage(TxtInputValidationFailed \o winput.icause \o Dot, ColorRed),
                            PrintMessage(TxtInputData \o winput.itext \o Dot, ColorRed)>>,
                          "ValueError", TxtInvalidInputData \o winput.icause \o Dot)
    /\ UNCHANGED <<wprev, wctor, wconfig, winput, wrun, callVars, threadVars, llmVars>>

\* lines 130-146: the verbose log of the start
WfLogStart ==
    /\ wpc = "log_start"
    /\ LET p == IF wconfig.verbose
                THEN FirstRaised(
                       <<PrintMessage(TxtStartingWorkflow \o wconfig.name \o <<" ", "(">>
                                      \o wconfig.workflow_id \o <<")">> \o Dot, ColorGrey0),
                         PrintMessage(TxtInputData \o winput.itext \o Dot, ColorGrey0),
                         PrintMessage(TxtDescription \o wconfig.description \o Dot, ColorGrey0)>>)
                ELSE <<>>
       IN  IF p # <<>>
           THEN /\ wpc' = "except"
                /\ wfailed' = "log"
                /\ werror' = WfError("MarkupError", p)
           ELSE /\ wpc' = "execute"
                /\ UNCHANGED <<werror, wfailed>>
    /\ UNCHANGED <<wprev, wctor, wconfig, winput, wrun, wstages, callVars, threadVars, llmVars>>

\* lines 148-153: _run_workflow(input_data)
WfExecute ==
    /\ wpc = "execute"
    /\ wstages' = Append(wstages, "run")
    /\ IF wrun.rraises
       THEN /\ wpc' = "except"
            /\ wfailed' = "run"
            /\ werror' = Handler(<<PrintMessage(TxtExecutionFailed \o wrun.rcause \o Dot, ColorRed)>>,
                                 "RuntimeError", TxtExecutionFailed \o wrun.rcause \o Dot)
       ELSE /\ wpc' = "validate_output"
            /\ UNCHANGED <<werror, wfailed>>
    /\ UNCHANGED <<wprev, wctor, wconfig, winput, wrun, callVars, threadVars, llmVars>>

\* lines 155-166: output validation, when an output model is set
WfValidateOutput ==
    /\ wpc = "validate_output"
    /\ IF ~wconfig.output_model
       THEN /\ wpc' = "log_end"
            /\ UNCHANGED <<werror, wstages, wfailed>>
       ELSE /\ wstages' = Append(wstages, "output")
            /\ IF wrun.rvalid
               THEN /\ wpc' = "log_end"
                    /\ UNCHANGED <<werror, wfailed>>
               ELSE /\ wpc' = "except"
                    /\ wfailed' = "output"
                    /\ werror' = Handler(
                          <<PrintMessage(TxtOutputValidationFailed \o wrun.rcause \o Dot, ColorRed),
                            PrintMessage(TxtOutputData \o wrun.rtext \o Dot, ColorRed)>>,
                          "ValueError", TxtInvalidOutputData \o wrun.rcause \o Dot)
    /\ UNCHANGED <<wprev, wctor, wconfig, winput, wrun, callVars, threadVars, llmVars>>

\* lines 168-180: the verbose log of the result, and the return
WfLogEnd ==
    /\ wpc = "log_end"
    /\ LET p == IF wconfig.verbose
                THEN FirstRaised(
                       <<PrintMessage(TxtWorkflowResult \o wrun.rtext \o Dot, ColorGrey0),
                         PrintMessage(TxtCompleted \o wconfig.name \o Dot, ColorGrey0)>>)
                ELSE <<>>
       IN  IF p # <<>>
           THEN /\ wpc' = "except"
                /\ wfailed' = "log"
                /\ werror' = WfError("MarkupError", p)
           ELSE /\ wpc' = "returned"
                /\ UNCHANGED <<werror, wfailed>>
    /\ UNCHANGED <<wprev, wctor, wconfig, winput, wrun, wstages, callVars, threadVars, llmVars>>

\* WfExcept leaving the workflow verbose after a failed run
WfExceptTurnsVerbose ==
    /\ wpc = "except"
    /\ wpc' = "raised"
    /\ werror' = Handler(<<PrintMessage(TxtWorkflowFailed \o werror.wtext \o Dot, ColorRed)>>,
                         "SystemError", TxtWorkflowFailed \o werror.wtext \o Dot)
    /\ wconfig' = [wconfig EXCEPT !.verbose = TRUE]
    /\ UNCHANGED <<wprev, wctor, winput, wrun, wstages, wfailed, callVars, threadVars, llmVars>>

\* lines 182-185: except Exception as e: print, then raise SystemError
WfExcept ==
    /\ wpc = "except"
    /\ wpc' = "raised"
    /\ werror' = Handler(<<PrintMessage(TxtWorkflowFailed \o werror.wtext \o Dot, ColorRed)>>,
                         "SystemError", TxtWorkflowFailed \o werror.wtext \o Dot)
    /\ UNCHANGED <<wprev, wctor, wconfig, winput, wrun, wstages, wfailed, callVars, threadVars, llmVars>>

\* run is over: the caller holds the result or the exception
WfFinish ==
    /\ wpc \in {"returned", "raised"}
    /\ wpc' = "idle"
    /\ winput' = NoInput
    /\ wrun' = NoRun
    /\ werror' = NoError
    /\ wstages' = <<>>
    /\ wfailed' = ""
    /\ wprev' = wpc
    /\ UNCHANGED <<wctor, wconfig, callVars, threadVars, llmVars>>

NextWorkflow ==
    \/ WfConstruct
    \/ WfRun
    \/ WfValidateInput
    \/ WfLogStart
    \/ WfExecute
    \/ WfValidateOutput
    \/ WfLogEnd
    \/ WfExcept
    \/ WfFinish

SpecWorkflow == Init /\ [][NextWorkflow]_vars

\* ------------------------------------------------------ LLM and AsyncLLM
\* LLM.__init__ and AsyncLLM.__init__: the client and verbose are kept
LlmConstruct ==
    /\ lpc = "unbuilt"
    /\ lclass' \in {"LLM", "AsyncLLM"}
    /\ lverbose' \in BOOLEAN
    /\ lpc' = "idle"
    /\ UNCHANGED <<linput, lcompletion, lerror, lrequests, lfailed, callVars, threadVars, workflowVars>>

\* generate_response(input_data) is called
LlmCall ==
    /\ lpc = "idle"
    /\ linput' \in ChatInputs
    /\ lcompletion' \in Completions
    /\ lpc' = "prepare"
    /\ UNCHANGED <<lclass, lverbose, lerror, lrequests, lfailed, callVars, threadVars, workflowVars>>

\* line 271: chat_input = self._prepare_request(input_data)
LlmPrepare ==
    /\ lpc = "prepare"
    /\ IF linput.lvalid
       THEN /\ lpc' = "log_request"
            /\ UNCHANGED <<lerror, lfailed>>
       ELSE /\ lpc' = "outer_except"
            /\ lerror' = WfError("ValidationError", linput.lcause)
            /\ lfailed' = "validation"
    /\ UNCHANGED <<lclass, lverbose, linput, lcompletion, lrequests, callVars, threadVars, workflowVars>>

\* line 272: self._log_request(chat_input)
LlmLogRequest ==
    /\ lpc = "log_request"
    /\ LET p == IF lverbose
                THEN PrintMessage(TxtGeneratingWithModel \o linput.lmodel, ColorGrey0)
                ELSE <<>>
       IN  IF p # <<>>
           THEN /\ lpc' = "outer_except"
                /\ lerror' = WfError("MarkupError", p)
                /\ lfailed' = "log_request"
           ELSE /\ lpc' = "request"
                /\ UNCHANGED <<lerror, lfailed>>
    /\ UNCHANGED <<lclass, lverbose, linput, lcompletion, lrequests, callVars, threadVars, workflowVars>>

\* lines 275-277: self.client.chat.completions.create(...), awaited in AsyncLLM
LlmRequest ==
    /\ lpc = "request"
    /\ lrequests' = lrequests + 1
    /\ IF lcompletion.araises
       THEN /\ lpc' = "inner_except"
            /\ lerror' = WfError("Exception", lcompletion.atext)
            /\ lfailed' = "request"
       ELSE /\ lpc' = "create_response"
            /\ UNCHANGED <<lerror, lfailed>>
    /\ UNCHANGED <<lclass, lverbose, linput, lcompletion, callVars, threadVars, workflowVars>>

\* line 278: chat_response = self._create_response(response)
LlmCreateResponse ==
    /\ lpc = "create_response"
    /\ IF lcompletion.aprocessed
       THEN /\ lpc' = "log_response"
            /\ UNCHANGED <<lerror, lfailed>>
       ELSE /\ lpc' = "inner_except"
            /\ lerror' = WfError("ValidationError", lcompletion.atext)
            /\ lfailed' = "response"
    /\ UNCHANGED <<lclass, lverbose, linput, lcompletion, lrequests, callVars, threadVars, workflowVars>>

\* lines 279-280: self._log_response(chat_response); return chat_response
LlmLogResponse ==
    /\ lpc = "log_response"
    /\ LET p == IF lverbose
                THEN PrintMessage(TxtGeneratedResponse \o lcompletion.adump, ColorGrey0)
                ELSE <<>>
       IN  IF p # <<>>
           THEN /\ lpc' = "inner_except"
                /\ lerror' = WfError("MarkupError", p)
                /\ lfailed' = "log_response"
           ELSE /\ lpc' = "returned"
                /\ UNCHANGED <<lerror, lfailed>>
    /\ UNCHANGED <<lclass, lverbose, linput, lcompletion, lrequests, callVars, threadVars, workflowVars>>

\* lines 281-282: the inner handler; what _handle_error raises is raised
\* inside the outer try block
LlmInnerExcept ==
    /\ lpc = "inner_except"
    /\ lerror' = HandleError(lerror.wtext, CtxFailedToGenerate)
    /\ lpc' = "outer_except"
    /\ UNCHANGED <<lclass, lverbose, linput, lcompletion, lrequests, lfailed, callVars, threadVars, workflowVars>>

\* lines 283-284: the outer handler
LlmOuterExcept ==
    /\ lpc = "outer_except"
    /\ lerror' = HandleError(lerror.wtext, CtxErrorInGenerate)
    /\ lpc' = "raised"
    /\ UNCHANGED <<lclass, lverbose, linput, lcompletion, lrequests, lfailed, callVars, threadVars, workflowVars>>

\* generate_response is over: the caller holds the response or the exception
LlmFinish ==
    /\ lpc \in {"returned", "raised"}
    /\ lpc' = "idle"
    /\ linput' = NoChatInput
    /\ lcompletion' = NoCompletion
    /\ lerror' = NoError
    /\ lrequests' = 0
    /\ lfailed' = ""
    /\ UNCHANGED <<lclass, lverbose, callVars, threadVars, workflowVars>>

NextLLM ==
    \/ LlmConstruct
    \/ LlmCall
    \/ LlmPrepare
    \/ LlmLogRequest
    \/ LlmRequest
    \/ LlmCreateResponse
    \/ LlmLogResponse
    \/ LlmInnerExcept
    \/ LlmOuterExcept
    \/ LlmFinish

SpecLLM == Init /\ [][NextLLM]_vars

\* ------------------------------------------------------------------ claims
InUnitRange(o) == o.kind = "return" /\ o.cls = "finite" /\ 0 <= o.val /\ o.val <= Unit
InvalidInput(o) == o.kind = "raise" /\ o.exc = "ValueError"
NonEmptyText == data.type = "str" /\ data.txt # <<>>
Finished(name) == strategy = name /\ pc = "done"

\* C1: whenever the construction of the default client, the judge request
\* or the parsing of the response raised, ContextualEntropy returns exactly
\* what TextEntropy returns for the same text, and returns rather than raises.
C1_FallbackLaw ==
    (Finished("contextual") /\ caught # "")
        => (outcome.kind = "return" /\ outcome = TextEntropy(data))
C1_Witness ==
    /\ Finished("contextual") /\ caught = "ValueError"
    /\ outcome.kind = "return" /\ outcome.val > 0

\* C2: for a non-empty text and whatever the judge answers, ContextualEntropy
\* returns a value between 0.0 and 1.0.
C2_JudgeScoreInRange ==
    (Finished("contextual") /\ NonEmptyText) => InUnitRange(outcome)

\* C3: one compute_entropy call issues at most one judge request, and once
\* the try block has raised the next step is the TextEntropy fallback and the
\* return, with no further request.
C3_SingleAttempt ==
    /\ [](requests <= 1)
    /\ [][pc = "except" =>
            /\ pc' = "done"
            /\ requests' = requests
            /\ fallbacks' = fallbacks + 1
            /\ outcome' = TextEntropy(data)]_vars
C3_Witness ==
    /\ Finished("contextual") /\ caught = "APITimeoutError"
    /\ requests = 1 /\ fallbacks = 1 /\ outcome.kind = "return"

\* C4: each of the five strategies returns 0.0 for None, without an error.
C4_NoneIsZero ==
    (pc = "done" /\ data = PyNone
        /\ strategy \in {"text", "numerical", "search", "contextual", "time"})
        => outcome = Return(0)
C4_Witness == Finished("numerical") /\ data = PyNone /\ outcome = Return(0)

\* C5: TextEntropy of any string, NumericalEntropy of any list of finite
\* numbers and SearchEngineEntropy of any list of strings return a value
\* between 0.0 and 1.0.
C5_ValidInput ==
    \/ strategy = "text" /\ data.type = "str"
    \/ /\ strategy = "numerical" /\ data.type = "list"
       /\ \A i \in 1..Len(data.items) : IsNumber(data.items[i]) /\ IsFinite(data.items[i])
    \/ /\ strategy = "search" /\ data.type = "list"
       /\ \A i \in 1..Len(data.items) : data.items[i].type = "str"
C5_ScoreInRange == (pc = "done" /\ C5_ValidInput) => InUnitRange(outcome)

\* C6: TimeEntropy of two or more valid timestamps, in any order, returns a
\* value between 0.0 and 1.0 (finite and not negative).
C6_ValidTimestamps ==
    /\ data.type = "list" /\ Len(data.items) >= 2
    /\ \A i \in 1..Len(data.items) :
          data.items[i].type = "str" /\ IsIsoFormat(data.items[i].txt)
C6_TimeScoreInRange ==
    (Finished("time") /\ C6_ValidTimestamps) => InUnitRange(outcome)

\* C7: TextEntropy and ContextualEntropy raise ValueError "Input must be a
\* string or None" for an argument that is neither a str nor None, and
\* ContextualEntropy has then constructed no client and issued no request.
C7_StringOrNone ==
    (pc = "done" /\ strategy \in {"text", "contextual"} /\ data.type \notin {"str", "NoneType"})
        => /\ outcome = Raise("ValueError", "Input must be a string or None")
           /\ constructed = 0 /\ requests = 0
C7_Witness ==
    /\ Finished("contextual") /\ data = PyInt(123)
    /\ InvalidInput(outcome) /\ requests = 0

\* C8: NumericalEntropy rejects a non-list, returns 0.0 for an empty list,
\* rejects a list with a non-numeric element, then a list with a non-finite
\* value, and only then returns 0.0 for a list of fewer than two elements.
C8_NonNumeric == \E i \in 1..Len(data.items) : ~IsNumber(data.items[i])
C8_NonFinite == \E i \in 1..Len(data.items) : ~IsFinite(data.items[i])
C8_ValidationOrder ==
    Finished("numerical") =>
        /\ data.type \notin {"list", "NoneType"}
              => outcome = Raise("ValueError", "Input must be a list of numbers or None")
        /\ (data.type = "list" /\ data.items = <<>>) => outcome = Return(0)
        /\ (data.type = "list" /\ C8_NonNumeric)
              => outcome = Raise("ValueError", "All elements must be numbers")
        /\ (data.type = "list" /\ ~C8_NonNumeric /\ C8_NonFinite)
              => outcome = Raise("ValueError", "Input contains non-finite values")
        /\ (data.type = "list" /\ ~C8_NonNumeric /\ ~C8_NonFinite /\ Len(data.items) = 1)
              => outcome = Return(0)
C8_Witness ==
    /\ Finished("numerical") /\ data = PyList(<<PyNonFinite("nan")>>)
    /\ InvalidInput(outcome)

\* C9: TimeEntropy rejects a non-list and every list with an element that
\* is no str or no ISO timestamp, a one-element list included.
C9_BadElement ==
    \E i \in 1..Len(data.items) :
        data.items[i].type # "str" \/ ~IsIsoFormat(data.items[i].txt)
C9_TimestampsValidated ==
    (Finished("time") /\ (data.type \notin {"list", "NoneType"} \/ (data.type = "list" /\ C9_BadElement)))
        => InvalidInput(outcome)
C9_Witness ==
    /\ Finished("time") /\ data = PyList(<<PyStr(DateStr(2023, 13, 1))>>)
    /\ InvalidInput(outcome)

\* C10: SearchEngineEntropy rejects a non-list and every list with an
\* element that is no str, identical elements included, and returns 0.0 for
\* an empty list.
C10_ElementsChecked ==
    Finished("search") =>
        /\ data.type \notin {"list", "NoneType"} => InvalidInput(outcome)
        /\ (data.type = "list" /\ data.items = <<>>) => outcome = Return(0)
        /\ (data.type = "list" /\ \E i \in 1..Len(data.items) : data.items[i].type # "str")
              => InvalidInput(outcome)
C10_Witness ==
    /\ Finished("search") /\ data = PyList(<<PyInt(1), PyInt(1)>>)
    /\ InvalidInput(outcome)

\* C11: SearchEngineEntropy of a list of n >= 1 copies of one string, the
\* empty string included, returns exactly 0.0 and the TF-IDF vectorizer is
\* not run.
C11_Copies ==
    /\ data.type = "list" /\ data.items # <<>>
    /\ data.items[1].type = "str"
    /\ \A i \in 1..Len(data.items) : data.items[i] = data.items[1]
C11_CopiesScoreZero ==
    (Finished("search") /\ C11_Copies)
        => (outcome = Return(0) /\ "fit_transform" \notin libcalls)
C11_Witness ==
    /\ Finished("search") /\ data = PyList(<<PyStr(<<>>), PyStr(<<>>)>>)
    /\ outcome = Return(0) /\ libcalls = {}

\* C12: TimeEntropy of valid timestamps whose successive intervals are all
\* equal (the moments the texts denote are evenly spaced) returns exactly 0.0
\* and does not execute the entropy computation.
C12_NominalIntervals ==
    [i \in 1..(Len(data.items) - 1) |->
        (Timestamp(data.items[i + 1].txt) - Timestamp(data.items[i].txt)) * 1000
        + (IsoMilli(data.items[i + 1].txt) - IsoMilli(data.items[i].txt))]
C12_EqualIntervals ==
    /\ C6_ValidTimestamps
    /\ \A i, j \in 1..(Len(data.items) - 1) : C12_NominalIntervals[i] = C12_NominalIntervals[j]
C12_EqualIntervalsScoreZero ==
    (Finished("time") /\ C12_EqualIntervals)
        => (outcome = Return(0) /\ "entropy" \notin libcalls)

\* the factory call has returned or raised, and nothing was called since
FactoryActed == strategy = "none" /\ pc \in {"got", "done"}
FactoryFailed == strategy = "none" /\ pc = "done"

\* C13: get_entropy_calculator maps each of the five tokens to one strategy
\* type, the same in every call, and the strategy it returns gives on every
\* input the outcome a directly constructed strategy of that type gives.
C13_FactoryMapping ==
    /\ [](pc = "got" =>
            /\ token = PyStr(KeyText) => calculator = "text"
            /\ token = PyStr(KeyNumerical) => calculator = "numerical"
            /\ token = PyStr(KeySearch) => calculator = "search"
            /\ token = PyStr(KeyContextual) => calculator = "contextual"
            /\ token = PyStr(KeyTime) => calculator = "time"
            /\ calculator \in {"text", "numerical", "search", "contextual", "time"})
    /\ [][pc = "got" =>
            /\ strategy' = calculator
            /\ outcome' = ComputeEntropy(calculator, data')]_vars
C13_Witness ==
    pc = "got" /\ token = PyStr(KeySearch) /\ calculator = "search"

\* C14: get_entropy_calculator raises ValueError for None, for a token that
\* is no str (a list included) and for every str other than the five exact
\* names, and returns no strategy then.
C14_Recognised ==
    token.type = "str" /\ token.txt \in {KeyText, KeyNumerical, KeySearch, KeyContextual, KeyTime}
Contains(m, t) == \E i \in 0..(Len(m) - Len(t)) : SubSeq(m, i + 1, i + Len(t)) = t
C15_MessageNamesToken == FactoryFailed => Contains(message, Str(token))

\* C16: TextEntropy, NumericalEntropy, SearchEngineEntropy, TimeEntropy and
\* the fallback of ContextualEntropy are pure: whatever calls were made
\* before, successful or failing, nothing of them is left where a call
\* starts, and the outcome of the call is a function of its argument alone.
C16_NothingKept ==
    /\ strategy = "none" /\ data = PyNone /\ client = "none"
    /\ response = NoResponse /\ caught = "" /\ outcome = NoOutcome
    /\ requests = 0 /\ constructed = 0 /\ fallbacks = 0 /\ libcalls = {}
C17_Alone(c) ==
    IF c.tstrategy # "contextual" THEN ComputeEntropy(c.tstrategy, c.tdata)
    ELSE IF ContextualGuard(c.tdata) # NoOutcome THEN ContextualGuard(c.tdata)
    ELSE IF c.tcaught # "" THEN TextEntropy(c.tdata)
    ELSE JudgeScore(ParseFloat(c.tresponse.content))
C17_Independent ==
    /\ [](\A t \in Threads : tcall[t].tpc = "done" => tcall[t].toutcome = C17_Alone(tcall[t]))
    /\ [][/\ attrs' = attrs
          /\ \A t, u \in Threads : (t # u /\ tcall'[t] # tcall[t]) => tcall'[u] = tcall[u]]_vars
C17_Witness ==
    /\ tcall[1].tstrategy = "contextual" /\ tcall[1].tpc = "done"
    /\ tcall[1].tcaught = "IndexError" /\ tcall[1].tdata = PyStr(<<"a", "b">>)
    /\ tcall[1].toutcome = TextEntropy(PyStr(<<"a", "b">>))
    /\ tcall[2].tstrategy = "contextual" /\ tcall[2].tpc = "except"
    /\ tcall[2].tdata = PyStr(<<"b">>)

\* C18: TextEntropy returns 0.0 for the empty string and for a string of
\* one repeated character (a blank included), and a strictly positive score
\* for a string with two or more distinct characters.
C18_DistinctChars == Cardinality({data.txt[i] : i \in 1..Len(data.txt)})
C18_ZeroOrPositive ==
    (Finished("text") /\ data.type = "str")
        => IF C18_DistinctChars <= 1
           THEN outcome = Return(0)
           ELSE outcome.kind = "return" /\ outcome.cls = "finite" /\ outcome.val > 0
C18_Witness ==
    /\ Finished("text") /\ data = PyStr(<<"a", "a", "b">>)
    /\ outcome.kind = "return" /\ outcome.val > 0

\* C19: TimeEntropy takes the n-1 successive differences of the n
\* timestamps in the order given, without sorting, and the score is the
\* function of that interval sequence; the same timestamps in another order
\* may score differently.
C19_Intervals == Intervals([i \in 1..Len(data.items) |-> data.items[i].txt])
C19_InputOrderIntervals ==
    (Finished("time") /\ C6_ValidTimestamps)
        => /\ Len(C19_Intervals) = Len(data.items) - 1
           /\ outcome = IF IntervalRangeIsZero(C19_Intervals)
                        THEN Return(0)
                        ELSE TimeEntropyScore(C19_Intervals)
C19_Witness ==
    /\ Finished("time")
    /\ data = PyList(<<PyStr(DateStr(2023, 1, 1)), PyStr(DateStr(2023, 1, 4)),
                       PyStr(DateStr(2023, 1, 2))>>)
    /\ outcome # TimeEntropy(PyList(<<PyStr(DateStr(2023, 1, 1)), PyStr(DateStr(2023, 1, 2)),
                                      PyStr(DateStr(2023, 1, 4))>>))

\* C20: whenever a stage of BaseWorkflow.run fails (input validation,
\* _run_workflow, output validation), run raises SystemError and the text of
\* that SystemError contains the message of the stage that failed.
C20_StageMessage ==
    CASE wfailed = "input" -> <<"I", "n", "v", "a", "l", "i", "d", " ", "i", "n", "p", "u", "t", " ", "d", "a", "t", "a">>
      [] wfailed = "run" -> <<"W", "o", "r", "k", "f", "l", "o", "w", " ", "e", "x", "e", "c", "u", "t", "i", "o", "n", " ", "f", "a", "i", "l", "e", "d">>
      [] wfailed = "output" -> <<"I", "n", "v", "a", "l", "i", "d", " ", "o", "u", "t", "p", "u", "t", " ", "d", "a", "t", "a">>
C20_SystemErrorNamesStage ==
    (wpc = "raised" /\ wfailed \in {"input", "run", "output"})
        => (werror.wtype = "SystemError" /\ Contains(werror.wtext, C20_StageMessage))

\* C21: BaseWorkflow.run raises ValueError when input validation fails and
\* RuntimeError when _run_workflow fails, so that the type of the raised error
\* tells a validation error from an execution error.
C21_ErrorTypeTellsStage ==
    /\ (wpc = "raised" /\ wfailed = "input") => werror.wtype = "ValueError"
    /\ (wpc = "raised" /\ wfailed = "run") => werror.wtype = "RuntimeError"

\* C24: a workflow constructed with a string workflow_id keeps exactly that
\* string as its id; a UUID is generated only when no workflow_id was given;
\* a workflow_id that is neither None nor a string makes the construction
\* raise RuntimeError with 'Invalid workflow ID type' in its message.
C24_Constructed == wpc \notin {"unbuilt", "init_raised"}
C24_WorkflowIdKept ==
    /\ (wpc # "unbuilt" /\ wctor.type = "str")
           => (C24_Constructed /\ wconfig.workflow_id = wctor.txt)
    /\ (C24_Constructed /\ wconfig.workflow_id \in Uuids) => wctor = PyNone
    /\ (wpc # "unbuilt" /\ wctor.type \notin {"NoneType", "str"})
           => /\ wpc = "init_raised"
              /\ werror.wtype = "RuntimeError"
              /\ Contains(werror.wtext, <<"I", "n", "v", "a", "l", "i", "d", " ", "w", "o", "r", "k", "f", "l", "o", "w", " ", "I", "D", " ", "t", "y", "p", "e">>)

\* C28: in every run the stages happen in the order input validation,
\* _run_workflow, output validation, each at most once; _run_workflow is
\* invoked only after input validation succeeded or when no input model is
\* set; output validation happens only after _run_workflow returned; once a
\* stage has failed no later stage runs and no result is returned.
C28_InOrder(st) ==
    \A i \in 1..Len(st), j \in 1..Len(st) :
        i < j => \/ st[i] = "input" /\ st[j] \in {"run", "output"}
                 \/ st[i] = "run" /\ st[j] = "output"
C28_Entered(stage) == \E i \in 1..Len(wstages) : wstages[i] = stage
C28_StageOrder ==
    /\ [](/\ C28_InOrder(wstages)
          /\ C28_Entered("run") =>
                IF wconfig.input_model THEN C28_Entered("input") /\ winput.ivalid
                ELSE ~C28_Entered("input")
          /\ C28_Entered("output") => (C28_Entered("run") /\ ~wrun.rraises)
          /\ wfailed \in {"input", "run", "output"} =>
                (wstages[Len(wstages)] = wfailed /\ wpc # "returned"))
    /\ [][(wfailed # "" /\ wpc' # "idle") => (wstages' = wstages /\ wpc' # "returned")]_vars
C28_Witness ==
    /\ wpc = "raised"
    /\ wfailed = "run"
    /\ wconfig.output_model
    /\ wstages = <<"input", "run">>

\* C30: a run, successful or failed, leaves workflow_id, name, description,
\* input_model, output_model and verbose of the workflow as they were, and
\* whatever runs came before, run(x) ends as run(x) ends on a workflow just
\* constructed with the same attributes: it returns when that returns and
\* raises the exception that raises.
C30_RunsLeaveNoTrace ==
    /\ [][wpc \notin {"unbuilt", "init_raised"} => wconfig' = wconfig]_vars
    /\ [](wpc = "returned" => RunOutcome(wconfig, winput, wrun) = NoError)
    /\ [](wpc = "raised" => (werror # NoError /\ werror = RunOutcome(wconfig, winput, wrun)))
C30_Witness ==
    /\ wprev = "raised"
    /\ wpc = "returned"
    /\ wconfig.input_model
    /\ wconfig.output_model

\* C25: SearchEngineEntropy.compute_entropy of a non-empty list of strings
\* returns a score and does not raise; a list of strings that yield no
\* n-gram feature is scored 0.0.
C25_ListOfStrings ==
    /\ pc = "done" /\ strategy = "search"
    /\ data.type = "list" /\ data.items # <<>>
    /\ \A i \in 1..Len(data.items) : data.items[i].type = "str"
C25_WellTypedIsScored ==
    C25_ListOfStrings
        => /\ outcome.kind = "return"
           /\ Vocabulary([i \in 1..Len(data.items) |-> data.items[i].txt]) = {} => outcome.val = 0

\* C26: when the judge request succeeds and the content of the response,
\* stripped of surrounding blanks, is an integer k with 0 <= k <= 10,
\* ContextualEntropy returns k/10 and TextEntropy is not consulted.
C26_Digits ==
    LET t == Strip(response.content)
    IN  IF t # <<>> /\ t[1] \in {"-", "+"} THEN Tail(t) ELSE t
C26_IntegerAnswer ==
    /\ Finished("contextual")
    /\ response.choices = 1 /\ response.ctype = "str"
    /\ C26_Digits # <<>>
    /\ \A i \in 1..Len(C26_Digits) : IsDigit(C26_Digits[i])
    /\ DigitsVal(C26_Digits) <= 10
    /\ Strip(response.content)[1] = "-" => DigitsVal(C26_Digits) = 0
C26_JudgeAnswerReturned ==
    C26_IntegerAnswer
        => /\ outcome = Return((DigitsVal(C26_Digits) * Unit) \div 10)
           /\ caught = ""
           /\ fallbacks = 0
           /\ libcalls = {}
C26_Witness ==
    /\ C26_IntegerAnswer
    /\ response.content = <<"1", "0">>
    /\ outcome = Return(Unit)
    /\ requests = 1

\* C27: when text is None or the empty string, ContextualEntropy constructs
\* no client and issues no judge request; it returns 0.0 directly, whether or
\* not a client is supplied.
C27_NothingToRate == strategy = "contextual" /\ data \in {PyNone, PyStr(<<>>)}
C27_NoJudgeForEmpty ==
    /\ [](C27_NothingToRate
            => /\ pc = "done"
               /\ outcome = Return(0)
               /\ constructed = 0 /\ requests = 0 /\ fallbacks = 0
               /\ client \in {"none", "supplied"})
    /\ [][C27_NothingToRate => (constructed' = 0 /\ requests' = 0)]_vars
C27_Witness ==
    /\ C27_NothingToRate
    /\ data = PyStr(<<>>)
    /\ client = "supplied"
    /\ pc = "done"
    /\ outcome = Return(0)

\* C22: generate_response of LLM and of AsyncLLM raises ValueError when the
\* validation of the input fails and RuntimeError when the request to the API
\* or the processing of its response fails.
C22_ErrorTypeByFailure ==
    /\ (lpc = "raised" /\ lfailed = "validation") => lerror.wtype = "ValueError"
    /\ (lpc = "raised" /\ lfailed \in {"request", "response"}) => lerror.wtype = "RuntimeError"

\* C23: when the client's chat-completion call raises an exception of
\* message m, generate_response of LLM and of AsyncLLM raises an error whose
\* message is 'Error in generate_response: Failed to generate chat
\* completion: ' followed by m, and nothing else.
C23_ApiErrorMessage ==
    (lpc = "raised" /\ lfailed = "request")
        => lerror.wtext = CtxErrorInGenerate \o <<":", " ">> \o CtxFailedToGenerate
                              \o <<":", " ">> \o lcompletion.atext

\* C29: generate_response has made exactly one chat-completion request when
\* it ends after a passed input validation and none when the validation
\* failed; it never makes a second request; after a failure it does not
\* return.
C29_OneRequest ==
    /\ lrequests <= 1
    /\ (lpc \in {"returned", "raised"} /\ linput.lvalid) => lrequests = 1
    /\ (lpc \in {"returned", "raised"} /\ ~linput.lvalid) => lrequests = 0
    /\ lfailed # "" => lpc # "returned"

====
